---------------------------- MODULE Spec2Model ----------------------------
(***************************************************************************)
(* A model of the JSON-patch engine of src/code_2.py: JsonPatch.apply and  *)
(* the six PatchOperation classes, and DiffBuilder / JsonPatch.from_diff.  *)
(*                                                                         *)
(* Python objects live in a heap: a list or dict is a heap cell, a slot of *)
(* a container (or a variable) holds an Item, which is a scalar or a       *)
(* reference to a cell.  Inserting a value into a container stores the     *)
(* reference, as Python does; copy.deepcopy allocates new cells.           *)
(*                                                                         *)
(* Strings (object keys, pointer strings) are sequences of one-character   *)
(* strings, so that str(), int(), escaping and splitting are computed.     *)
(***************************************************************************)
EXTENDS Integers, Sequences, FiniteSets, TLC

(***************************************************************************)
(* Generic helpers.                                                        *)
(***************************************************************************)
Range(s) == {s[i] : i \in 1..Len(s)}

Last(s) == s[Len(s)]

Front(s) == SubSeq(s, 1, Len(s) - 1)

\* the first position of x in s, 0 when absent
IndexOf(s, x) == IF x \in Range(s) THEN CHOOSE i \in 1..Len(s) : s[i] = x /\ \A j \in 1..(i-1) : s[j] # x ELSE 0

RemoveAt(s, i) == SubSeq(s, 1, i - 1) \o SubSeq(s, i + 1, Len(s))

InsertAt(s, i, x) == SubSeq(s, 1, i - 1) \o <<x>> \o SubSeq(s, i, Len(s))

\* the element of a one-element set; Only({e : x \in {v}}) is e with x bound to
\* the value of v, computed once
Only(S) == CHOOSE x \in S : TRUE

(***************************************************************************)
(* Python str / int on strings-as-character-sequences.                     *)
(***************************************************************************)
Digits == <<"0", "1", "2", "3", "4", "5", "6", "7", "8", "9">>

IsDigit(c) == c \in Range(Digits)

DigitVal(c) == IndexOf(Digits, c) - 1

RECURSIVE StrOfNat(_)
StrOfNat(n) == IF n < 10 THEN <<Digits[n + 1]>> ELSE StrOfNat(n \div 10) \o <<Digits[(n % 10) + 1]>>

\* str(n) for an int n
StrOfInt(n) == IF n < 0 THEN <<"-">> \o StrOfNat(0 - n) ELSE StrOfNat(n)

RECURSIVE NatOfStr(_)
NatOfStr(s) == IF Len(s) = 0 THEN 0 ELSE 10 * NatOfStr(Front(s)) + DigitVal(Last(s))

AllDigits(s) == Len(s) > 0 /\ \A i \in 1..Len(s) : IsDigit(s[i])

\* int(s) succeeds: an optional sign, then digits
IntParses(s) == \/ AllDigits(s)
                \/ Len(s) > 1 /\ s[1] \in {"-", "+"} /\ AllDigits(Tail(s))

IntOfStr(s) == IF AllDigits(s) THEN NatOfStr(s)
               ELSE IF s[1] = "-" THEN 0 - NatOfStr(Tail(s)) ELSE NatOfStr(Tail(s))

(***************************************************************************)
(* Items, cells and the heap.                                              *)
(***************************************************************************)
Num(n) == [k |-> "num", n |-> n]

Bool(b) == [k |-> "bool", n |-> IF b THEN 1 ELSE 0]

Null == [k |-> "null", n |-> 0]

Ref(a) == [k |-> "ref", n |-> a]

\* the Python None a function returns for "no part"
NoItem == [k |-> "none", n |-> 0]

IsRef(it) == it.k = "ref"

ListCell(items) == [k |-> "list", keys |-> <<>>, items |-> items]

DictCell(keys, items) == [k |-> "dict", keys |-> keys, items |-> items]

IsList(h, it) == IsRef(it) /\ h[it.n].k = "list"

IsDict(h, it) == IsRef(it) /\ h[it.n].k = "dict"

\* dict lookup: the item under key, for a key of the dict
DictGet(c, key) == c.items[IndexOf(c.keys, key)]

\* d[key] = item: overwrite in place, or append in insertion order
DictSet(c, key, item) ==
    IF key \in Range(c.keys)
    THEN [c EXCEPT !.items[IndexOf(c.keys, key)] = item]
    ELSE [c EXCEPT !.keys = Append(c.keys, key), !.items = Append(c.items, item)]

DictDel(c, key) ==
    LET i == IndexOf(c.keys, key)
    IN [c EXCEPT !.keys = RemoveAt(c.keys, i), !.items = RemoveAt(c.items, i)]

(***************************************************************************)
(* The JSON value an item denotes (dict order dropped), and equality.      *)
(***************************************************************************)
RECURSIVE Val(_, _)
Val(h, it) ==
    IF ~IsRef(it) THEN [k |-> it.k, n |-> it.n, a |-> <<>>, o |-> <<>>]
    ELSE LET c == h[it.n]
         IN IF c.k = "list"
            THEN [k |-> "list", n |-> 0, a |-> [i \in 1..Len(c.items) |-> Val(h, c.items[i])], o |-> <<>>]
            ELSE [k |-> "dict", n |-> 0, a |-> <<>>, o |-> [key \in Range(c.keys) |-> Val(h, DictGet(c, key))]]

\* Python's ==: True == 1 and False == 0, containers compared member by member
RECURSIVE PyEq(_, _)
PyEq(v, w) ==
    IF v.k \in {"num", "bool"} /\ w.k \in {"num", "bool"} THEN v.n = w.n
    ELSE IF v.k # w.k THEN FALSE
    ELSE IF v.k = "list" THEN Len(v.a) = Len(w.a) /\ \A i \in 1..Len(v.a) : PyEq(v.a[i], w.a[i])
    ELSE IF v.k = "dict" THEN DOMAIN v.o = DOMAIN w.o /\ \A key \in DOMAIN v.o : PyEq(v.o[key], w.o[key])
    ELSE TRUE

(***************************************************************************)
(* Pointer strings.  str.replace, str.split and '/'.join on character      *)
(* sequences; the escaping of _path_join; the JsonPointer class.           *)
(***************************************************************************)
\* s.replace(c, rep) for a one-character c
RECURSIVE ReplaceChar(_, _, _)
ReplaceChar(s, c, rep) ==
    IF Len(s) = 0 THEN <<>>
    ELSE (IF s[1] = c THEN rep ELSE <<s[1]>>) \o ReplaceChar(Tail(s), c, rep)

\* s.replace(pat, rep) for a two-character pat: leftmost, non-overlapping
RECURSIVE ReplacePair(_, _, _)
ReplacePair(s, pat, rep) ==
    IF Len(s) < 2 THEN s
    ELSE IF s[1] = pat[1] /\ s[2] = pat[2] THEN rep \o ReplacePair(SubSeq(s, 3, Len(s)), pat, rep)
    ELSE <<s[1]>> \o ReplacePair(Tail(s), pat, rep)

\* str(key).replace('~', '~0').replace('/', '~1')
Escape(tok) == ReplaceChar(ReplaceChar(tok, "~", <<"~", "0">>), "/", <<"~", "1">>)

\* token.replace('~1', '/').replace('~0', '~')
Unescape(tok) == ReplacePair(ReplacePair(tok, <<"~", "1">>, <<"/">>), <<"~", "0">>, <<"~">>)

\* s.split('/')
RECURSIVE Split(_)
Split(s) ==
    IF "/" \notin Range(s) THEN <<s>>
    ELSE LET i == IndexOf(s, "/")
         IN <<SubSeq(s, 1, i - 1)>> \o Split(SubSeq(s, i + 1, Len(s)))

\* '/'.join(parts)
RECURSIVE Join(_)
Join(parts) ==
    IF Len(parts) = 0 THEN <<>>
    ELSE IF Len(parts) = 1 THEN parts[1]
    ELSE parts[1] \o <<"/">> \o Join(Tail(parts))

\* the key None of _path_join
NoKey == <<"None">>

\* a mutant: the key is appended as it is
path_join_Unescaped(path, key) == IF key = NoKey THEN path ELSE path \o <<"/">> \o key

\* _path_join(path, key), key already a string (str(key) is taken by the caller
\* where the code passes an int); None is passed as NoKey
path_join(path, key) == IF key = NoKey THEN path ELSE path \o <<"/">> \o Escape(key)

\* JsonPointer(s) is accepted: it starts with '/' (or is empty) and has no
\* '~' that is not followed by 0 or 1
PointerOk(s) ==
    /\ Split(s)[1] = <<>>
    /\ \A i \in 1..Len(s) : s[i] = "~" => (i < Len(s) /\ s[i + 1] \in {"0", "1"})

\* JsonPointer(s).parts
Parts(s) == LET raw == Tail(Split(s)) IN [i \in 1..Len(raw) |-> Unescape(raw[i])]

\* JsonPointer.path of a pointer with these parts
RECURSIVE PointerPath(_)
PointerPath(parts) ==
    IF Len(parts) = 0 THEN <<>> ELSE <<"/">> \o Escape(parts[1]) \o PointerPath(Tail(parts))

\* JsonPointer.contains: ptr's parts are a prefix of self's parts
contains(selfParts, ptrParts) ==
    /\ Len(ptrParts) <= Len(selfParts)
    /\ SubSeq(selfParts, 1, Len(ptrParts)) = ptrParts

\* get_part's array-index pattern: a non-negative integer without leading zeros
IsArrayIndex(tok) ==
    /\ Len(tok) > 0
    /\ \/ tok = <<"0">>
       \/ tok[1] # "0" /\ AllDigits(tok)

(***************************************************************************)
(* A resolved part: a string key, an int index, or None.                   *)
(***************************************************************************)
KeyPart(tok) == [k |-> "str", s |-> tok, i |-> 0]

IntPart(i) == [k |-> "int", s |-> <<>>, i |-> i]

NonePart == [k |-> "none", s |-> <<>>, i |-> 0]

Dash == <<"-">>

\* JsonPointer.get_part(doc, part): err is "" or the exception raised
get_part(h, doc, tok) ==
    IF IsDict(h, doc) THEN [err |-> "", part |-> KeyPart(tok)]
    ELSE IF IsList(h, doc)
         THEN IF tok = Dash THEN [err |-> "", part |-> KeyPart(tok)]
              ELSE IF ~IsArrayIndex(tok) THEN [err |-> "JsonPointerException", part |-> NonePart]
              ELSE [err |-> "", part |-> IntPart(IntOfStr(tok))]
    ELSE [err |-> "JsonPointerException", part |-> NonePart]

\* the marker walk returns for '-' on a list (an EndOfList object)
EndOfList == [k |-> "endoflist", n |-> 0]

\* JsonPointer.walk(doc, part): [err, item]
walk(h, doc, tok) ==
    Only({
       IF gp.err # "" THEN [err |-> gp.err, item |-> NoItem]
       ELSE IF IsList(h, doc)
            THEN IF gp.part.k = "str" THEN [err |-> "", item |-> EndOfList]
                 ELSE IF gp.part.i < Len(h[doc.n].items)
                      THEN [err |-> "", item |-> h[doc.n].items[gp.part.i + 1]]
                      ELSE [err |-> "JsonPointerException", item |-> NoItem]
            ELSE IF tok \in Range(h[doc.n].keys)
                 THEN [err |-> "", item |-> DictGet(h[doc.n], tok)]
                 ELSE [err |-> "JsonPointerException", item |-> NoItem]
       : gp \in {get_part(h, doc, tok)}})

\* walking the parts in order from doc: [err, item]
RECURSIVE WalkAll(_, _, _)
WalkAll(h, doc, parts) ==
    IF Len(parts) = 0 THEN [err |-> "", item |-> doc]
    ELSE IF doc = EndOfList THEN [err |-> "JsonPointerException", item |-> NoItem]
    ELSE Only({IF w.err # "" THEN w ELSE WalkAll(h, w.item, Tail(parts)) : w \in {walk(h, doc, parts[1])}})

\* JsonPointer.to_last(doc): [err, subobj, part]
to_last(h, doc, parts) ==
    IF Len(parts) = 0 THEN [err |-> "", subobj |-> doc, part |-> NonePart]
    ELSE Only({
            IF w.err # "" THEN [err |-> w.err, subobj |-> NoItem, part |-> NonePart]
            ELSE IF w.item = EndOfList THEN [err |-> "JsonPointerException", subobj |-> NoItem, part |-> NonePart]
            ELSE Only({[err |-> gp.err, subobj |-> w.item, part |-> gp.part] : gp \in {get_part(h, w.item, Last(parts))}})
            : w \in {WalkAll(h, doc, Front(parts))}})

(***************************************************************************)
(* copy.deepcopy: new cells for every container reachable from the item,   *)
(* a container reached twice copied once (the memo).                       *)
(***************************************************************************)
RECURSIVE DeepCopyRec(_, _, _)
RECURSIVE DeepCopyItems(_, _, _, _)
\* [heap, memo, item]
DeepCopyRec(h, memo, it) ==
    IF ~IsRef(it) THEN [heap |-> h, memo |-> memo, item |-> it]
    ELSE IF it.n \in DOMAIN memo THEN [heap |-> h, memo |-> memo, item |-> Ref(memo[it.n])]
    ELSE Only({[heap |-> [r.heap EXCEPT ![Len(h) + 1].items = r.items], memo |-> r.memo, item |-> Ref(Len(h) + 1)]
               : r \in {DeepCopyItems(Append(h, [h[it.n] EXCEPT !.items = <<>>]), memo @@ (it.n :> Len(h) + 1),
                                      h[it.n].items, <<>>)}})

\* [heap, memo, items]: the copies of todo, appended to done
DeepCopyItems(h, memo, todo, done) ==
    IF Len(todo) = 0 THEN [heap |-> h, memo |-> memo, items |-> done]
    ELSE Only({DeepCopyItems(r.heap, r.memo, Tail(todo), Append(done, r.item)) : r \in {DeepCopyRec(h, memo, todo[1])}})

\* a mutant: the object itself is handed back
deepcopy_Same(h, it) == [heap |-> h, item |-> it]

deepcopy(h, it) == Only({[heap |-> r.heap, item |-> r.item] : r \in {DeepCopyRec(h, <<>>, it)}})

(***************************************************************************)
(* The operations.  A raw operation is the dict of the patch document:     *)
(* fields is the set of members it has; an absent member's entry is unused.*)
(* An apply returns [heap, obj, err]: the heap after it, the document it   *)
(* returns, and "" or the name of the exception it raised.                 *)
(***************************************************************************)
RawOp(fields, op, path, from, value) ==
    [fields |-> fields, op |-> op, path |-> path, from |-> from, value |-> value]

Ok(h, obj) == [heap |-> h, obj |-> obj, err |-> ""]

Raise(h, obj, e) == [heap |-> h, obj |-> obj, err |-> e]

\* subobj[part] for Move and Copy: [err, item]
GetItem(h, subobj, part) ==
    IF IsList(h, subobj)
    THEN IF part.k # "int" THEN [err |-> "TypeError", item |-> NoItem]
         ELSE IF part.i < Len(h[subobj.n].items) THEN [err |-> "", item |-> h[subobj.n].items[part.i + 1]]
         ELSE [err |-> "IndexError", item |-> NoItem]
    ELSE IF IsDict(h, subobj)
    THEN IF part.k = "str" /\ part.s \in Range(h[subobj.n].keys)
         THEN [err |-> "", item |-> DictGet(h[subobj.n], part.s)]
         ELSE [err |-> "KeyError", item |-> NoItem]
    ELSE [err |-> "TypeError", item |-> NoItem]

\* subobj.append(value)
list_append(items, value) == Append(items, value)

\* subobj.insert(part, value), part >= 0: at or past the end it appends
list_insert(items, part, value) ==
    IF part >= Len(items) THEN Append(items, value) ELSE InsertAt(items, part + 1, value)

\* a mutant: the bound is one too far
insert_outside_OffByOne(part, len) == part > len + 1 \/ part < 0

\* part > len(subobj) or part < 0
insert_outside(part, len) == part > len \/ part < 0

\* a mutant: the element is left as it was
list_setitem_Kept(items, part, value) == items

\* subobj[part] = value on a list, part in range
list_setitem(items, part, value) == [items EXCEPT ![part + 1] = value]

\* del subobj[part] on a list, part in range
list_delitem(items, part) == RemoveAt(items, part + 1)

\* a mutant: the comparison inverted
test_differs_Inverted(val, value) == PyEq(val, value)

\* val != value
test_differs(val, value) == ~PyEq(val, value)

RemoveOperation_apply(h, obj, op) ==
    Only({
       IF tl.err # "" THEN Raise(h, obj, tl.err)
       ELSE IF IsList(h, tl.subobj)
       THEN IF tl.part.k # "int" THEN Raise(h, obj, "JsonPointerException")
            ELSE IF tl.part.i >= Len(h[tl.subobj.n].items) THEN Raise(h, obj, "JsonPatchConflict")
            ELSE Ok([h EXCEPT ![tl.subobj.n].items = list_delitem(@, tl.part.i)], obj)
       ELSE IF IsDict(h, tl.subobj)
       THEN IF tl.part.k = "str" /\ tl.part.s \in Range(h[tl.subobj.n].keys)
            THEN Ok([h EXCEPT ![tl.subobj.n] = DictDel(@, tl.part.s)], obj)
            ELSE Raise(h, obj, "JsonPatchConflict")
       ELSE Raise(h, obj, "TypeError")
       : tl \in {to_last(h, obj, Parts(op.path))}})

AddOperation_apply(h, obj, op) ==
    IF "value" \notin op.fields THEN Raise(h, obj, "InvalidJsonPatch")
    ELSE Only({
            IF tl.err # "" THEN Raise(h, obj, tl.err)
            ELSE IF IsList(h, tl.subobj)
            THEN IF tl.part = KeyPart(Dash) THEN Ok([h EXCEPT ![tl.subobj.n].items = list_append(@, op.value)], obj)
                 ELSE IF tl.part.k # "int" THEN Raise(h, obj, "TypeError")
                 ELSE IF insert_outside(tl.part.i, Len(h[tl.subobj.n].items)) THEN Raise(h, obj, "JsonPatchConflict")
                 ELSE Ok([h EXCEPT ![tl.subobj.n].items = list_insert(@, tl.part.i, op.value)], obj)
            ELSE IF IsDict(h, tl.subobj)
            THEN IF tl.part = NonePart THEN Ok(h, op.value)
                 ELSE Ok([h EXCEPT ![tl.subobj.n] = DictSet(@, tl.part.s, op.value)], obj)
            ELSE IF tl.part = NonePart THEN Raise(h, obj, "TypeError")
                 ELSE Raise(h, obj, "JsonPatchConflict")
            : tl \in {to_last(h, obj, Parts(op.path))}})

ReplaceOperation_apply(h, obj, op) ==
    IF "value" \notin op.fields THEN Raise(h, obj, "InvalidJsonPatch")
    ELSE Only({
            IF tl.err # "" THEN Raise(h, obj, tl.err)
            ELSE IF tl.part = NonePart THEN Ok(h, op.value)
            ELSE IF tl.part = KeyPart(Dash) THEN Raise(h, obj, "InvalidJsonPatch")
            ELSE IF IsList(h, tl.subobj)
            THEN IF tl.part.i >= Len(h[tl.subobj.n].items) \/ tl.part.i < 0 THEN Raise(h, obj, "JsonPatchConflict")
                 ELSE Ok([h EXCEPT ![tl.subobj.n].items = list_setitem(@, tl.part.i, op.value)], obj)
            ELSE IF IsDict(h, tl.subobj)
            THEN IF tl.part.s \notin Range(h[tl.subobj.n].keys) THEN Raise(h, obj, "JsonPatchConflict")
                 ELSE Ok([h EXCEPT ![tl.subobj.n] = DictSet(@, tl.part.s, op.value)], obj)
            ELSE Raise(h, obj, "JsonPatchConflict")
            : tl \in {to_last(h, obj, Parts(op.path))}})

\* a mutant: the value stays at 'from'
MoveRemoveAdd_Kept(h, obj, op, value) ==
    AddOperation_apply(h, obj, RawOp({"op", "path", "value"}, "add", op.path, <<>>, value))

\* a mutant: no value goes into its own children, whatever held it
MoveRemoveAdd_Guarded(h, obj, op, value) ==
    IF contains(Parts(op.path), Parts(op.from)) THEN Raise(h, obj, "JsonPatchConflict")
    ELSE Only({
            IF r.err # "" THEN r
            ELSE AddOperation_apply(r.heap, r.obj, RawOp({"op", "path", "value"}, "add", op.path, <<>>, value))
            : r \in {RemoveOperation_apply(h, obj, RawOp({"op", "path"}, "remove", op.from, <<>>, NoItem))}})

\* the Remove and then the Add that Move delegates to
MoveRemoveAdd(h, obj, op, value) ==
    Only({
       IF r.err # "" THEN r
       ELSE AddOperation_apply(r.heap, r.obj, RawOp({"op", "path", "value"}, "add", op.path, <<>>, value))
       : r \in {RemoveOperation_apply(h, obj, RawOp({"op", "path"}, "remove", op.from, <<>>, NoItem))}})

MoveOperation_apply(h, obj, op) ==
    IF "from" \notin op.fields THEN Raise(h, obj, "InvalidJsonPatch")
    ELSE IF ~PointerOk(op.from) THEN Raise(h, obj, "JsonPointerException")
    ELSE Only({
            IF tl.err # "" THEN Raise(h, obj, tl.err)
            ELSE Only({
                    IF got.err \in {"KeyError", "IndexError"} THEN Raise(h, obj, "JsonPatchConflict")
                    ELSE IF got.err # "" THEN Raise(h, obj, got.err)
                    ELSE IF Parts(op.path) = Parts(op.from) THEN Ok(h, obj)
                    ELSE IF IsDict(h, tl.subobj) /\ contains(Parts(op.path), Parts(op.from))
                         THEN Raise(h, obj, "JsonPatchConflict")
                    ELSE MoveRemoveAdd(h, obj, op, got.item)
                    : got \in {GetItem(h, tl.subobj, tl.part)}})
            : tl \in {to_last(h, obj, Parts(op.from))}})

\* a mutant: the pointer's exception is let through
test_unresolved_Kept(ex) == ex

\* except JsonPointerException as ex: raise JsonPatchTestFailed(str(ex))
test_unresolved(ex) == "JsonPatchTestFailed"

TestOperation_apply(h, obj, op) ==
    Only({
       IF w.err # "" THEN Raise(h, obj, test_unresolved(w.err))
       ELSE IF "value" \notin op.fields THEN Raise(h, obj, "InvalidJsonPatch")
       ELSE IF w.item = EndOfList \/ test_differs(Val(h, w.item), Val(h, op.value))
            THEN Raise(h, obj, "JsonPatchTestFailed")
       ELSE Ok(h, obj)
       : w \in {Only({
                   IF tl.err # "" THEN [err |-> tl.err, item |-> NoItem]
                   ELSE IF tl.part = NonePart THEN [err |-> "", item |-> tl.subobj]
                   ELSE walk(h, tl.subobj, IF tl.part.k = "int" THEN StrOfInt(tl.part.i) ELSE tl.part.s)
                   : tl \in {to_last(h, obj, Parts(op.path))}})}})

\* the Add that Copy delegates to, with the copy made
CopyAdd(h, obj, op, c) ==
    AddOperation_apply(c.heap, obj, RawOp({"op", "path", "value"}, "add", op.path, <<>>, c.item))

CopyOperation_apply(h, obj, op) ==
    IF "from" \notin op.fields THEN Raise(h, obj, "InvalidJsonPatch")
    ELSE IF ~PointerOk(op.from) THEN Raise(h, obj, "JsonPointerException")
    ELSE Only({
            IF tl.err # "" THEN Raise(h, obj, tl.err)
            ELSE Only({
                    IF got.err \in {"KeyError", "IndexError"} THEN Raise(h, obj, "JsonPatchConflict")
                    ELSE IF got.err # "" THEN Raise(h, obj, got.err)
                    ELSE Only({CopyAdd(h, obj, op, c) : c \in {deepcopy(h, got.item)}})
                    : got \in {GetItem(h, tl.subobj, tl.part)}})
            : tl \in {to_last(h, obj, Parts(op.from))}})

\* JsonPatch.operations
operations == {"remove", "add", "replace", "move", "test", "copy"}

\* operation.apply(obj), by the class _get_operation chose
OperationApply(h, obj, op) ==
    CASE op.op = "remove" -> RemoveOperation_apply(h, obj, op)
      [] op.op = "add" -> AddOperation_apply(h, obj, op)
      [] op.op = "replace" -> ReplaceOperation_apply(h, obj, op)
      [] op.op = "move" -> MoveOperation_apply(h, obj, op)
      [] op.op = "test" -> TestOperation_apply(h, obj, op)
      [] op.op = "copy" -> CopyOperation_apply(h, obj, op)

\* PatchOperation.__init__: "" or the exception
PatchOperation_init(op) ==
    IF "path" \notin op.fields THEN "InvalidJsonPatch"
    ELSE IF ~PointerOk(op.path) THEN "JsonPointerException"
    ELSE ""

\* a mutant: 'value' and 'from' demanded at construction too
get_operation_Eager(op) ==
    IF "op" \notin op.fields THEN "InvalidJsonPatch"
    ELSE IF op.op \notin operations THEN "InvalidJsonPatch"
    ELSE IF op.op \in {"add", "replace", "test"} /\ "value" \notin op.fields THEN "InvalidJsonPatch"
    ELSE IF op.op \in {"move", "copy"} /\ "from" \notin op.fields THEN "InvalidJsonPatch"
    ELSE PatchOperation_init(op)

\* JsonPatch._get_operation: "" or the exception
get_operation(op) ==
    IF "op" \notin op.fields THEN "InvalidJsonPatch"
    ELSE IF op.op \notin operations THEN "InvalidJsonPatch"
    ELSE PatchOperation_init(op)

(***************************************************************************)
(* DiffBuilder.  The builder keeps its operations in a circular doubly     *)
(* linked list of [prev, next, op] cells: nodes is the arena of the cells  *)
(* ever made, a cell is named by its position, root is the sentinel.  An   *)
(* operation object is its operation dict (op, path, from, value) and the  *)
(* parts of its pointer.  A builder is [nodes, index_storage,              *)
(* index_storage2, err], err the exception that ended the diff.            *)
(***************************************************************************)
ST_ADD == 0

ST_REMOVE == 1

root == 1

\* a PatchOperation made from an operation dict with this 'path'
DiffOp(op, location, from, value) ==
    [op |-> op, path |-> location, from |-> from, value |-> value, parts |-> Parts(location)]

\* the root cell's None, and the content of a cell emptied by remove
NoOp == [op |-> "none", path |-> <<>>, from |-> <<>>, value |-> NoItem, parts |-> <<>>]

\* DiffBuilder.__init__: empty storages, root linked to itself
DiffBuilder_init ==
    [nodes |-> <<[prev |-> root, next |-> root, op |-> NoOp]>>,
     index_storage |-> [st \in {ST_ADD, ST_REMOVE} |-> <<>>],
     index_storage2 |-> [st \in {ST_ADD, ST_REMOVE} |-> <<>>],
     err |-> ""]

\* hash(value) succeeds: not a list, not a dict
Hashable(v) == v.k \notin {"list", "dict"}

\* the position of typed_key in an index_storage dict, 0 when absent: the key
\* is (value, type(value)), equal when value and type both are
StoredAt(storage, v) ==
    IF \E i \in 1..Len(storage) : storage[i].key = v
    THEN CHOOSE i \in 1..Len(storage) : storage[i].key = v
    ELSE 0

\* the last position of index_storage2 whose key equals typed_key, 0 when none:
\* tuples compare with ==, which on the values is Python's
FoundAt(storage, v) ==
    IF \E i \in 1..Len(storage) : storage[i].key.k = v.k /\ PyEq(storage[i].key, v)
    THEN CHOOSE i \in 1..Len(storage) :
            /\ storage[i].key.k = v.k /\ PyEq(storage[i].key, v)
            /\ \A j \in (i + 1)..Len(storage) : ~(storage[j].key.k = v.k /\ PyEq(storage[j].key, v))
    ELSE 0

\* DiffBuilder.store_index; v is the JSON value of `value`
store_index(b, v, index, st) ==
    IF Hashable(v)
    THEN IF StoredAt(b.index_storage[st], v) = 0
         THEN [b EXCEPT !.index_storage[st] = Append(@, [key |-> v, idxs |-> <<index>>])]
         ELSE [b EXCEPT !.index_storage[st][StoredAt(b.index_storage[st], v)].idxs = Append(@, index)]
    ELSE [b EXCEPT !.index_storage2[st] = Append(@, [key |-> v, index |-> index])]

\* a mutant: the cell found stays in the index
take_index_Kept(b, v, st) ==
    IF Hashable(v)
    THEN IF StoredAt(b.index_storage[st], v) # 0 /\ Len(b.index_storage[st][StoredAt(b.index_storage[st], v)].idxs) > 0
         THEN [b |-> b, index |-> Last(b.index_storage[st][StoredAt(b.index_storage[st], v)].idxs)]
         ELSE [b |-> b, index |-> 0]
    ELSE IF FoundAt(b.index_storage2[st], v) # 0
         THEN [b |-> b, index |-> b.index_storage2[st][FoundAt(b.index_storage2[st], v)].index]
         ELSE [b |-> b, index |-> 0]

\* a mutant: nothing is ever found
take_index_Miss(b, v, st) == [b |-> b, index |-> 0]

\* DiffBuilder.take_index: [b, index], index 0 for None
take_index(b, v, st) ==
    IF Hashable(v)
    THEN IF StoredAt(b.index_storage[st], v) # 0 /\ Len(b.index_storage[st][StoredAt(b.index_storage[st], v)].idxs) > 0
         THEN [b |-> [b EXCEPT !.index_storage[st][StoredAt(b.index_storage[st], v)].idxs = Front(@)],
               index |-> Last(b.index_storage[st][StoredAt(b.index_storage[st], v)].idxs)]
         ELSE [b |-> b, index |-> 0]
    ELSE IF FoundAt(b.index_storage2[st], v) # 0
         THEN [b |-> [b EXCEPT !.index_storage2[st] = RemoveAt(@, FoundAt(b.index_storage2[st], v))],
               index |-> b.index_storage2[st][FoundAt(b.index_storage2[st], v)].index]
         ELSE [b |-> b, index |-> 0]

\* DiffBuilder.insert: a new cell before root; the new cell is Len(b.nodes) + 1
insert(b, op) ==
    [b EXCEPT !.nodes = Append([b.nodes EXCEPT ![b.nodes[root].prev].next = Len(b.nodes) + 1,
                                               ![root].prev = Len(b.nodes) + 1],
                               [prev |-> b.nodes[root].prev, next |-> root, op |-> op])]

\* a mutant: the cell after the removed one keeps its link to it
remove_NoBackLink(b, index) ==
    [b EXCEPT !.nodes = [b.nodes EXCEPT ![b.nodes[index].prev].next = b.nodes[index].next,
                                        ![index] = [prev |-> 0, next |-> 0, op |-> NoOp]]]

\* DiffBuilder.remove: unlink the cell and empty it
remove(b, index) ==
    [b EXCEPT !.nodes = [b.nodes EXCEPT ![b.nodes[index].prev].next = b.nodes[index].next,
                                        ![b.nodes[index].next].prev = b.nodes[index].prev,
                                        ![index] = [prev |-> 0, next |-> 0, op |-> NoOp]]]

(***************************************************************************)
(* PatchOperation.path and .key, MoveOperation.from_path and .from_key,    *)
(* and the _on_undo_remove / _on_undo_add hooks.  A hook returns [v, key,  *)
(* err]: the operation after it, the key it returns, "" or the exception.  *)
(***************************************************************************)
\* '/'.join(self.pointer.parts[:-1])
PatchOperation_path(o) == Join(Front(o.parts))

\* int(parts[-1]), or parts[-1] on ValueError; NonePart stands for the IndexError
\* of an empty pointer
PatchOperation_key(o) ==
    IF Len(o.parts) = 0 THEN NonePart
    ELSE IF IntParses(Last(o.parts)) THEN IntPart(IntOfStr(Last(o.parts)))
    ELSE KeyPart(Last(o.parts))

\* the key setter: parts[-1] = str(value), location and operation['path'] follow
set_key(o, value) ==
    [o EXCEPT !.parts = [o.parts EXCEPT ![Len(o.parts)] = StrOfInt(value)],
              !.path = PointerPath([o.parts EXCEPT ![Len(o.parts)] = StrOfInt(value)])]

MoveOperation_from_path(o) == Join(Front(Parts(o.from)))

\* int(from_ptr.parts[-1]): only TypeError is caught, so a key that is no
\* number raises ValueError (the "none" part)
MoveOperation_from_key(o) ==
    IF Len(Parts(o.from)) = 0 \/ ~IntParses(Last(Parts(o.from))) THEN NonePart
    ELSE IntPart(IntOfStr(Last(Parts(o.from))))

\* the from_key setter
set_from_key(o, value) ==
    [o EXCEPT !.from = PointerPath([Parts(o.from) EXCEPT ![Len(Parts(o.from))] = StrOfInt(value)])]

Hook(v, key, e) == [v |-> v, key |-> key, err |-> e]

\* what comparing self.key with an int raises when self.key is no int
KeyRaises(o) == IF Len(o.parts) = 0 THEN "IndexError" ELSE "TypeError"

FromKeyRaises(o) == IF Len(Parts(o.from)) = 0 THEN "IndexError" ELSE "ValueError"

RemoveOperation_on_undo_remove(v, path, key) ==
    IF PatchOperation_path(v) # path THEN Hook(v, key, "")
    ELSE IF PatchOperation_key(v).k # "int" THEN Hook(v, key, KeyRaises(v))
    ELSE IF PatchOperation_key(v).i >= key THEN Hook(set_key(v, PatchOperation_key(v).i + 1), key, "")
    ELSE Hook(v, key - 1, "")

RemoveOperation_on_undo_add(v, path, key) ==
    IF PatchOperation_path(v) # path THEN Hook(v, key, "")
    ELSE IF PatchOperation_key(v).k # "int" THEN Hook(v, key, KeyRaises(v))
    ELSE IF PatchOperation_key(v).i > key THEN Hook(set_key(v, PatchOperation_key(v).i - 1), key, "")
    ELSE Hook(v, key - 1, "")

AddOperation_on_undo_remove(v, path, key) ==
    IF PatchOperation_path(v) # path THEN Hook(v, key, "")
    ELSE IF PatchOperation_key(v).k # "int" THEN Hook(v, key, KeyRaises(v))
    ELSE IF PatchOperation_key(v).i > key THEN Hook(set_key(v, PatchOperation_key(v).i + 1), key, "")
    ELSE Hook(v, key + 1, "")

AddOperation_on_undo_add(v, path, key) ==
    IF PatchOperation_path(v) # path THEN Hook(v, key, "")
    ELSE IF PatchOperation_key(v).k # "int" THEN Hook(v, key, KeyRaises(v))
    ELSE IF PatchOperation_key(v).i > key THEN Hook(set_key(v, PatchOperation_key(v).i - 1), key, "")
    ELSE Hook(v, key + 1, "")

\* the from half of MoveOperation._on_undo_remove
MoveFromUndoRemove(v, path, key) ==
    IF MoveOperation_from_path(v) # path THEN Hook(v, key, "")
    ELSE IF MoveOperation_from_key(v).k # "int" THEN Hook(v, key, FromKeyRaises(v))
    ELSE IF MoveOperation_from_key(v).i >= key THEN Hook(set_from_key(v, MoveOperation_from_key(v).i + 1), key, "")
    ELSE Hook(v, key - 1, "")

\* the from half of MoveOperation._on_undo_add
MoveFromUndoAdd(v, path, key) ==
    IF MoveOperation_from_path(v) # path THEN Hook(v, key, "")
    ELSE IF MoveOperation_from_key(v).k # "int" THEN Hook(v, key, FromKeyRaises(v))
    ELSE IF MoveOperation_from_key(v).i > key THEN Hook(set_from_key(v, MoveOperation_from_key(v).i - 1), key, "")
    ELSE Hook(v, key - 1, "")

\* the path half is written as AddOperation's hook is
MoveOperation_on_undo_remove(v, path, key) ==
    Only({IF r.err # "" THEN r ELSE AddOperation_on_undo_remove(r.v, path, r.key)
          : r \in {MoveFromUndoRemove(v, path, key)}})

MoveOperation_on_undo_add(v, path, key) ==
    Only({IF r.err # "" THEN r ELSE AddOperation_on_undo_add(r.v, path, r.key)
          : r \in {MoveFromUndoAdd(v, path, key)}})

\* v._on_undo_remove(path, key) by the class of v (ReplaceOperation returns key)
on_undo_remove(v, path, key) ==
    CASE v.op = "remove" -> RemoveOperation_on_undo_remove(v, path, key)
      [] v.op = "add" -> AddOperation_on_undo_remove(v, path, key)
      [] v.op = "move" -> MoveOperation_on_undo_remove(v, path, key)
      [] OTHER -> Hook(v, key, "")

on_undo_add(v, path, key) ==
    CASE v.op = "remove" -> RemoveOperation_on_undo_add(v, path, key)
      [] v.op = "add" -> AddOperation_on_undo_add(v, path, key)
      [] v.op = "move" -> MoveOperation_on_undo_add(v, path, key)
      [] OTHER -> Hook(v, key, "")

(***************************************************************************)
(* _item_added, _item_removed, _item_replaced and the _compare_ methods.   *)
(* h is the heap (the diff reads it only), dst the builder's dst_doc; a    *)
(* key is a part: an int from _compare_lists, a str from _compare_dicts,   *)
(* None from from_diff.                                                    *)
(***************************************************************************)
\* str(key) as _path_join takes it
KeyStr(key) == IF key.k = "int" THEN StrOfInt(key.i) ELSE IF key.k = "str" THEN key.s ELSE NoKey

\* for v in self.iter_from(index): op.key = v._on_undo_remove(op.path, op.key)
\* with op = index[2], from cell curr on: [nodes, err]
RECURSIVE UndoRemoveLoop(_, _, _)
UndoRemoveLoop(nodes, curr, index) ==
    IF curr = root THEN [nodes |-> nodes, err |-> ""]
    ELSE Only({IF r.err # "" THEN [nodes |-> nodes, err |-> r.err]
               ELSE UndoRemoveLoop([nodes EXCEPT ![curr].op = r.v, ![index].op = set_key(@, r.key)],
                                   nodes[curr].next, index)
               : r \in {on_undo_remove(nodes[curr].op, PatchOperation_path(nodes[index].op),
                                       PatchOperation_key(nodes[index].op).i)}})

\* for v in self.iter_from(index): op.key = v._on_undo_add(op.path, op.key)
RECURSIVE UndoAddLoop(_, _, _)
UndoAddLoop(nodes, curr, index) ==
    IF curr = root THEN [nodes |-> nodes, err |-> ""]
    ELSE Only({IF r.err # "" THEN [nodes |-> nodes, err |-> r.err]
               ELSE UndoAddLoop([nodes EXCEPT ![curr].op = r.v, ![index].op = set_key(@, r.key)],
                                nodes[curr].next, index)
               : r \in {on_undo_add(nodes[curr].op, PatchOperation_path(nodes[index].op),
                                    PatchOperation_key(nodes[index].op).i)}})

\* _item_added once take_index found the cell `index` of a remove: t is the
\* builder after take_index
ItemAddedFound(t, index, location, key) ==
    Only({IF lp.err # "" THEN [t EXCEPT !.err = lp.err]
          ELSE Only({IF lp.nodes[index].op.path # location
                     THEN insert(rm, DiffOp("move", location, lp.nodes[index].op.path, NoItem))
                     ELSE rm
                     : rm \in {remove([t EXCEPT !.nodes = lp.nodes], index)}})
          : lp \in {IF PatchOperation_key(t.nodes[index].op).k = "int" /\ key.k = "int"
                    THEN UndoRemoveLoop(t.nodes, t.nodes[index].next, index)
                    ELSE [nodes |-> t.nodes, err |-> ""]}})

\* DiffBuilder._item_added
item_added(h, b, path, key, item) ==
    Only({IF t.index # 0 THEN ItemAddedFound(t.b, t.index, path_join(path, KeyStr(key)), key)
          ELSE store_index(insert(t.b, DiffOp("add", path_join(path, KeyStr(key)), <<>>, item)),
                           Val(h, item), Len(t.b.nodes) + 1, ST_ADD)
          : t \in {take_index(b, Val(h, item), ST_REMOVE)}})

\* _item_removed once take_index found the cell `index` of an add: ins is the
\* builder after insert(new_op), new_index the cell of new_op
ItemRemovedFound(h, dst, ins, index, new_index) ==
    Only({IF tl.err # "" THEN [ins EXCEPT !.err = tl.err]
          ELSE Only({IF lp.err # "" THEN [ins EXCEPT !.err = lp.err]
                     ELSE Only({IF lp.nodes[new_index].op.path # lp.nodes[index].op.path
                                THEN [rm EXCEPT !.nodes[new_index].op =
                                         DiffOp("move", lp.nodes[index].op.path, lp.nodes[new_index].op.path, NoItem)]
                                ELSE remove(rm, new_index)
                                : rm \in {remove([ins EXCEPT !.nodes = lp.nodes], index)}})
                     : lp \in {IF IsList(h, tl.subobj)
                               THEN UndoAddLoop(ins.nodes, ins.nodes[index].next, index)
                               ELSE [nodes |-> ins.nodes, err |-> ""]}})
          : tl \in {to_last(h, dst, ins.nodes[index].op.parts)}})

\* DiffBuilder._item_removed
item_removed(h, dst, b, path, key, item) ==
    Only({Only({IF t.index # 0 THEN ItemRemovedFound(h, dst, ins, t.index, Len(t.b.nodes) + 1)
                ELSE store_index(ins, Val(h, item), Len(t.b.nodes) + 1, ST_REMOVE)
                : ins \in {insert(t.b, DiffOp("remove", path_join(path, KeyStr(key)), <<>>, NoItem))}})
          : t \in {take_index(b, Val(h, item), ST_ADD)}})

\* a mutant: an add is recorded in place of the replace
item_replaced_AsAdd(b, path, key, item) == insert(b, DiffOp("add", path_join(path, KeyStr(key)), <<>>, item))

\* DiffBuilder._item_replaced
item_replaced(b, path, key, item) == insert(b, DiffOp("replace", path_join(path, KeyStr(key)), <<>>, item))

\* a call of _compare_dicts or _compare_lists in progress: the keys its loops
\* have still to visit (dicts), the next index (lists)
DictFrame(h, path, src, dst) ==
    [fn |-> "dict", path |-> path, src |-> src, dst |-> dst, key |-> 0,
     removed_keys |-> Range(h[src.n].keys) \ Range(h[dst.n].keys),
     added_keys |-> Range(h[dst.n].keys) \ Range(h[src.n].keys),
     common_keys |-> Range(h[src.n].keys) \cap Range(h[dst.n].keys)]

ListFrame(path, src, dst) ==
    [fn |-> "list", path |-> path, src |-> src, dst |-> dst, key |-> 0,
     removed_keys |-> {}, added_keys |-> {}, common_keys |-> {}]

\* a mutant: the texts are never found equal
dumps_equal_Never(h, src, dst) == FALSE

\* self.dumps(src) == self.dumps(dst), reached when src and dst are not both
\* dicts and not both lists: the JSON texts are equal when the values are
dumps_equal(h, src, dst) == Val(h, src) = Val(h, dst)

\* DiffBuilder._compare_values: [b, calls], calls the frame of the call it makes
compare_values(h, b, path, key, src, dst) ==
    IF IsDict(h, src) /\ IsDict(h, dst)
    THEN [b |-> b, calls |-> <<DictFrame(h, path_join(path, KeyStr(key)), src, dst)>>]
    ELSE IF IsList(h, src) /\ IsList(h, dst)
    THEN [b |-> b, calls |-> <<ListFrame(path_join(path, KeyStr(key)), src, dst)>>]
    ELSE IF dumps_equal(h, src, dst) THEN [b |-> b, calls |-> <<>>]
    ELSE [b |-> item_replaced(b, path, key, dst), calls |-> <<>>]

\* one turn of a loop of _compare_dicts, for the key chosen: [b, frame, calls]
compare_dicts_step(h, dstdoc, b, f, key) ==
    IF key \in f.removed_keys
    THEN [b |-> item_removed(h, dstdoc, b, f.path, KeyPart(key), DictGet(h[f.src.n], key)),
          frame |-> [f EXCEPT !.removed_keys = @ \ {key}], calls |-> <<>>]
    ELSE IF key \in f.added_keys
    THEN [b |-> item_added(h, b, f.path, KeyPart(key), DictGet(h[f.dst.n], key)),
          frame |-> [f EXCEPT !.added_keys = @ \ {key}], calls |-> <<>>]
    ELSE Only({[b |-> c.b, frame |-> [f EXCEPT !.common_keys = @ \ {key}], calls |-> c.calls]
               : c \in {compare_values(h, b, f.path, KeyPart(key), DictGet(h[f.src.n], key), DictGet(h[f.dst.n], key))}})

\* the removal and the addition of the last branch of _compare_lists
removed_then_added(h, dstdoc, b, path, key, old, new) ==
    Only({IF r.err # "" THEN r ELSE item_added(h, r, path, key, new)
          : r \in {item_removed(h, dstdoc, b, path, key, old)}})

\* one turn of the loop of _compare_lists, key = f.key: [b, frame, calls]
compare_lists_step(h, dstdoc, b, f) ==
    LET src == h[f.src.n].items
        dst == h[f.dst.n].items
        nxt == [f EXCEPT !.key = @ + 1]
        old == src[f.key + 1]
        new == dst[f.key + 1]
    IN IF f.key < Len(src) /\ f.key < Len(dst)
       THEN IF PyEq(Val(h, old), Val(h, new)) THEN [b |-> b, frame |-> nxt, calls |-> <<>>]
            ELSE IF IsDict(h, old) /\ IsDict(h, new)
            THEN [b |-> b, frame |-> nxt, calls |-> <<DictFrame(h, path_join(f.path, StrOfInt(f.key)), old, new)>>]
            ELSE IF IsList(h, old) /\ IsList(h, new)
            THEN [b |-> b, frame |-> nxt, calls |-> <<ListFrame(path_join(f.path, StrOfInt(f.key)), old, new)>>]
            ELSE [b |-> removed_then_added(h, dstdoc, b, f.path, IntPart(f.key), old, new), frame |-> nxt, calls |-> <<>>]
       ELSE IF Len(src) > Len(dst)
       THEN [b |-> item_removed(h, dstdoc, b, f.path, IntPart(Len(dst)), old), frame |-> nxt, calls |-> <<>>]
       ELSE [b |-> item_added(h, b, f.path, IntPart(f.key), new), frame |-> nxt, calls |-> <<>>]

\* the loops of the frame are over
FrameDone(h, f) ==
    IF f.fn = "dict" THEN f.removed_keys = {} /\ f.added_keys = {} /\ f.common_keys = {}
    ELSE f.key >= Len(h[f.src.n].items) /\ f.key >= Len(h[f.dst.n].items)

\* the keys the loop of _compare_dicts that is running may visit next
TurnKeys(f) ==
    IF f.removed_keys # {} THEN f.removed_keys
    ELSE IF f.added_keys # {} THEN f.added_keys
    ELSE f.common_keys

\* curr[2].operation: the operation dict
operation(o) ==
    RawOp(CASE o.op = "move" -> {"op", "from", "path"}
            [] o.op = "remove" -> {"op", "path"}
            [] OTHER -> {"op", "path", "value"},
          o.op, o.path, o.from, o.value)

\* a mutant: every pending operation is yielded as it is
RECURSIVE execute_Plain(_, _)
execute_Plain(nodes, curr) ==
    IF curr = root THEN <<>> ELSE <<operation(nodes[curr].op)>> \o execute_Plain(nodes, nodes[curr].next)

\* DiffBuilder.execute from cell curr: the operation dicts it yields
RECURSIVE execute(_, _)
execute(nodes, curr) ==
    IF curr = root THEN <<>>
    ELSE IF /\ nodes[curr].next # root
            /\ nodes[curr].op.path = nodes[nodes[curr].next].op.path
            /\ nodes[curr].op.op = "remove"
            /\ nodes[nodes[curr].next].op.op = "add"
    THEN <<RawOp({"op", "path", "value"}, "replace", nodes[nodes[curr].next].op.path, <<>>,
                 nodes[nodes[curr].next].op.value)>>
            \o execute(nodes, nodes[nodes[curr].next].next)
    ELSE <<operation(nodes[curr].op)>> \o execute(nodes, nodes[curr].next)

(***************************************************************************)
(* Input documents are written as literals and allocated into the heap.    *)
(***************************************************************************)
LNum(n) == [k |-> "num", n |-> n, keys |-> <<>>, items |-> <<>>]

LBool(b) == [k |-> "bool", n |-> IF b THEN 1 ELSE 0, keys |-> <<>>, items |-> <<>>]

LList(items) == [k |-> "list", n |-> 0, keys |-> <<>>, items |-> items]

LDict(keys, items) == [k |-> "dict", n |-> 0, keys |-> keys, items |-> items]

RECURSIVE Build(_, _)
RECURSIVE BuildItems(_, _, _)
\* [heap, item]: the literal allocated in h
Build(h, lit) ==
    IF lit.k \notin {"list", "dict"} THEN [heap |-> h, item |-> [k |-> lit.k, n |-> lit.n]]
    ELSE Only({[heap |-> [r.heap EXCEPT ![Len(h) + 1].items = r.items], item |-> Ref(Len(h) + 1)]
               : r \in {BuildItems(Append(h, [k |-> lit.k, keys |-> lit.keys, items |-> <<>>]), lit.items, <<>>)}})

\* [heap, items]
BuildItems(h, todo, done) ==
    IF Len(todo) = 0 THEN [heap |-> h, items |-> done]
    ELSE Only({BuildItems(r.heap, Tail(todo), Append(done, r.item)) : r \in {Build(h, todo[1])}})

\* a raw patch whose values are literals, allocated: [heap, patch]
RECURSIVE BuildPatch(_, _, _)
BuildPatch(h, todo, done) ==
    IF Len(todo) = 0 THEN [heap |-> h, patch |-> done]
    ELSE Only({BuildPatch(r.heap, Tail(todo), Append(done, [todo[1] EXCEPT !.value = r.item]))
               : r \in {IF "value" \in todo[1].fields THEN Build(h, todo[1].value) ELSE [heap |-> h, item |-> NoItem]}})

\* the patch document as JSON values: what to_string would serialise
PatchVal(h, pt) ==
    [i \in 1..Len(pt) |-> [fields |-> pt[i].fields, op |-> pt[i].op, path |-> pt[i].path,
                           from |-> pt[i].from,
                           value |-> IF "value" \in pt[i].fields THEN Val(h, pt[i].value) ELSE Val(h, NoItem)]]

(***************************************************************************)
(* Bounds and inputs.                                                      *)
(***************************************************************************)
\* longest array "a" of an input document
MaxLen == 2

\* most operations in a patch document given to JsonPatch(...)
MaxOps == 2

\* most apply calls made on one JsonPatch
MaxRuns == 2

\* longest object key of the documents whose keys need escaping
MaxKey == 2

\* most cells inserted into a pending list that is driven call by call
MaxCells == 4

ka == <<"a">>

kb == <<"b">>

kc == <<"c">>

\* the pointer string with these reference tokens
Ptr(parts) == PointerPath(parts)

\* [1, 2, ..., n]
ArrOf(n) == LList([i \in 1..n |-> LNum(i)])

\* {"a": [1..n], "b": 1}
ObjDoc(n) == LDict(<<ka, kb>>, <<ArrOf(n), LNum(1)>>)

\* {"a": [[1]], "b": {"c": 1}}
NestedDoc == LDict(<<ka, kb>>, <<LList(<<LList(<<LNum(1)>>)>>), LDict(<<kc>>, <<LNum(1)>>)>>)

EmptyDoc == LDict(<<>>, <<>>)

\* {"a": [[1], [1, 2]]}
ListsDoc == LDict(<<ka>>, <<LList(<<ArrOf(1), ArrOf(2)>>)>>)

ApplyDocs == {ObjDoc(n) : n \in 0..MaxLen} \cup {EmptyDoc, NestedDoc, ListsDoc, LList(<<LNum(1)>>), LNum(1)}

ApplyValues == {LNum(1), LBool(TRUE), LList(<<>>), LList(<<LBool(TRUE), LNum(2)>>)}

IndexTokens == {StrOfInt(i) : i \in 0..(MaxLen + 1)} \cup {Dash}

ApplyPaths ==
    {Ptr(<<>>), Ptr(<<ka>>), Ptr(<<kb>>), Ptr(<<kc>>), Ptr(<<kb, kc>>), Ptr(<<ka, <<"0">>, <<"0">>>>), Ptr(<<<<"0">>>>)}
        \cup {Ptr(<<ka, t>>) : t \in IndexTokens}

FromPaths == {Ptr(<<>>), Ptr(<<ka>>), Ptr(<<kb>>), Ptr(<<kc>>), Ptr(<<ka, <<"0">>>>)}

\* well-formed operations over the given paths and values
OpsOver(paths, froms, values) ==
    {RawOp({"op", "path", "value"}, o, pth, <<>>, v) : o \in {"add", "replace", "test"}, pth \in paths, v \in values}
        \cup {RawOp({"op", "path"}, "remove", pth, <<>>, LNum(0)) : pth \in paths}
        \cup {RawOp({"op", "path", "from"}, o, pth, f, LNum(0)) : o \in {"move", "copy"}, pth \in paths, f \in froms}

\* operations with a member missing, an unknown 'op' or a path that is no pointer
MalformedOps ==
    {RawOp({"path", "value"}, "add", Ptr(<<ka>>), <<>>, LNum(1)),
     RawOp({"op", "path", "value"}, "add", ka, <<>>, LNum(1)),
     RawOp({"op", "path", "value"}, "merge", Ptr(<<ka>>), <<>>, LNum(1)),
     RawOp({"op", "value"}, "add", <<>>, <<>>, LNum(1)),
     RawOp({"op", "path"}, "add", Ptr(<<ka, Dash>>), <<>>, LNum(0)),
     RawOp({"op", "path"}, "replace", Ptr(<<kb>>), <<>>, LNum(0)),
     RawOp({"op", "path"}, "test", Ptr(<<kb>>), <<>>, LNum(0)),
     RawOp({"op", "path"}, "move", Ptr(<<kc>>), <<>>, LNum(0)),
     RawOp({"op", "path"}, "copy", Ptr(<<kc>>), <<>>, LNum(0))}

AllOps == OpsOver(ApplyPaths, FromPaths, ApplyValues) \cup MalformedOps

\* the operations two-operation patches are made of
PairOps ==
    OpsOver({Ptr(<<ka>>), Ptr(<<kb>>), Ptr(<<ka, <<"0">>>>), Ptr(<<ka, Dash>>)}, {}, {LNum(1), LList(<<>>)})
        \cup {RawOp({"op", "path", "value"}, "replace", Ptr(<<ka>>), <<>>, LList(<<LNum(2)>>)),
              RawOp({"op", "path", "value"}, "add", Ptr(<<ka, <<"0">>, Dash>>), <<>>, LNum(1)),
              RawOp({"op", "path", "value"}, "add", Ptr(<<ka, <<"0">>>>), <<>>, LList(<<LBool(TRUE), LNum(2)>>)),
              RawOp({"op", "path"}, "remove", Ptr(<<ka, <<"0">>, <<"0">>>>), <<>>, LNum(0))}
        \cup OpsOver({Ptr(<<ka, Dash>>), Ptr(<<ka, StrOfInt(MaxLen + 1)>>), Ptr(<<kc>>)}, {Ptr(<<kb>>), Ptr(<<ka>>)}, {})
        \cup {op \in MalformedOps : op.op \in {"add", "merge", "move"}}

\* the operations longer patches are made of
CoreOps ==
    {RawOp({"op", "path", "value"}, "add", Ptr(<<ka>>), <<>>, LList(<<>>)),
     RawOp({"op", "path", "value"}, "add", Ptr(<<ka, Dash>>), <<>>, LNum(1)),
     RawOp({"op", "path", "value"}, "add", Ptr(<<ka, <<"0">>>>), <<>>, LList(<<>>)),
     RawOp({"op", "path", "value"}, "add", Ptr(<<ka, <<"0">>, Dash>>), <<>>, LNum(1)),
     RawOp({"op", "path", "value"}, "add", Ptr(<<ka, StrOfInt(MaxLen + 2)>>), <<>>, LNum(1)),
     RawOp({"op", "path"}, "add", Ptr(<<ka, Dash>>), <<>>, LNum(0)),
     RawOp({"op", "path", "value"}, "replace", Ptr(<<ka, <<"0">>>>), <<>>, LList(<<>>)),
     RawOp({"op", "path", "value"}, "replace", Ptr(<<ka>>), <<>>, LList(<<LNum(2)>>)),
     RawOp({"op", "path", "value"}, "test", Ptr(<<ka, <<"0">>>>), <<>>, LNum(1)),
     RawOp({"op", "path", "value"}, "test", Ptr(<<kb>>), <<>>, LNum(1)),
     RawOp({"op", "path"}, "remove", Ptr(<<ka, <<"0">>>>), <<>>, LNum(0)),
     RawOp({"op", "path", "from"}, "move", Ptr(<<kc>>), Ptr(<<ka>>), LNum(0))}

CoreDocs == {ObjDoc(MaxLen), EmptyDoc}

SeqsUpTo(S, n) == UNION {[1..m -> S] : m \in 0..n}

\* the (document, patch) pairs a caller passes
ApplyInputs ==
    (ApplyDocs \X {<<o>> : o \in AllOps}) \cup (CoreDocs \X SeqsUpTo(PairOps, 2))
        \cup (CoreDocs \X SeqsUpTo(CoreOps, MaxOps))

k5 == <<"5">>

k6 == <<"6">>

\* the documents make_patch is given
DiffDocs ==
    {ArrOf(n) : n \in 0..MaxLen} \cup {ObjDoc(n) : n \in 0..MaxLen}
        \cup {LNum(1), LBool(TRUE), LList(<<LBool(TRUE)>>), LList(<<LNum(2), LNum(1)>>),
              LList(<<ArrOf(1), LNum(2)>>), LList(<<LNum(2), ArrOf(1)>>),
              LList(<<LNum(1), LNum(2), LList(<<LNum(2)>>)>>), LList(<<LNum(2), ArrOf(1), ArrOf(1)>>),
              LList(<<LNum(1), ArrOf(0)>>),
              EmptyDoc, NestedDoc, LDict(<<ka>>, <<ArrOf(1)>>), LDict(<<kb>>, <<ArrOf(1)>>),
              LDict(<<k5, k6, ka>>, <<LNum(1), LNum(2), ArrOf(0)>>),
              LDict(<<k5, kb, ka>>, <<LNum(1), LNum(2), ArrOf(0)>>),
              LDict(<<<<"a", "/", "b">>>>, <<LNum(1)>>),
              LDict(<<kb>>, <<LNum(1)>>), LDict(<<kb>>, <<LNum(2)>>), LDict(<<kb>>, <<LBool(TRUE)>>),
              LDict(<<ka>>, <<LList(<<LBool(TRUE)>>)>>),
              LDict(<<ka, kb>>, <<LList(<<LList(<<LNum(1)>>)>>), LDict(<<ka>>, <<LNum(1)>>)>>)}

\* the (src, dst) pairs
DiffInputs == DiffDocs \X DiffDocs

(***************************************************************************)
(* State.                                                                  *)
(***************************************************************************)
VARIABLES
    heap,      \* the Python heap: a sequence of list and dict cells
    patch,     \* JsonPatch.patch: the raw operations (values are items)
    doc,       \* the document the caller passes to the current apply call
    in_place,  \* the in_place argument of the current apply call
    pc,        \* from_diff, comparing, diff_raised; new, invalid, ready, applying, returned, raised
    obj,       \* apply's variable obj
    opIdx,     \* position in self._ops of the next operation
    err,       \* the exception that ended construction or the call, "" if none
    result,    \* what the call returned
    run,       \* apply calls started so far
    chain,     \* how doc was chosen: first, fresh (an equal document), result
    docLit,    \* the literal of the first document
    doc0,      \* the value of doc when the current call started
    patch0,    \* the value of the patch document when it was constructed
    before,    \* the value of obj before the operation applied last
    first,     \* the first call's outcome: [ok, ret]
    prev,      \* the previous call's outcome: [ok, ret]
    dst0,      \* the value of dst when make_patch was called
    src_doc,   \* DiffBuilder.src_doc (None when no diff is made)
    dst_doc,   \* DiffBuilder.dst_doc
    stack,     \* the calls of _compare_dicts / _compare_lists in progress, innermost last
    nodes,     \* the cells of the builder's linked list
    index_storage,   \* DiffBuilder.index_storage
    index_storage2   \* DiffBuilder.index_storage2

applyVars == <<heap, patch, doc, in_place, pc, obj, opIdx, err, result, run, chain>>

histVars == <<docLit, doc0, patch0, before, first, prev, dst0>>

diffVars == <<src_doc, dst_doc, stack, nodes, index_storage, index_storage2>>

vars == <<applyVars, histVars, diffVars>>

NoOutcome == [ok |-> FALSE, ret |-> Val(<<>>, NoItem)]

\* a caller holds a document and a patch document
InitApply ==
    /\ \E inp \in ApplyInputs :
        \E d \in {Build(<<>>, inp[1])} :
        \E pt \in {BuildPatch(d.heap, inp[2], <<>>)} :
           /\ heap = pt.heap
           /\ patch = pt.patch
           /\ doc = d.item
           /\ docLit = inp[1]
           /\ doc0 = Val(pt.heap, d.item)
           /\ patch0 = PatchVal(pt.heap, pt.patch)
    /\ in_place = FALSE
    /\ pc = "new"
    /\ obj = NoItem
    /\ opIdx = 0
    /\ err = ""
    /\ result = NoItem
    /\ run = 0
    /\ chain = "first"
    /\ before = Val(<<>>, NoItem)
    /\ first = NoOutcome
    /\ prev = NoOutcome
    /\ dst0 = Val(<<>>, NoItem)
    /\ src_doc = NoItem
    /\ dst_doc = NoItem
    /\ stack = <<>>
    /\ nodes = DiffBuilder_init.nodes
    /\ index_storage = DiffBuilder_init.index_storage
    /\ index_storage2 = DiffBuilder_init.index_storage2

\* the first exception _get_operation raises over the patch, "" if none
RECURSIVE FirstInvalid(_)
FirstInvalid(pt) ==
    IF Len(pt) = 0 THEN ""
    ELSE IF get_operation(pt[1]) # "" THEN get_operation(pt[1])
    ELSE FirstInvalid(Tail(pt))

\* JsonPatch.__init__
Construct ==
    /\ pc = "new"
    /\ err' = FirstInvalid(patch)
    /\ pc' = IF FirstInvalid(patch) = "" THEN "ready" ELSE "invalid"
    /\ UNCHANGED <<heap, patch, doc, in_place, obj, opIdx, result, run, chain, histVars, diffVars>>

\* if not in_place: obj = copy.deepcopy(obj)
apply_copy(h, d, ip) == IF ip THEN [heap |-> h, item |-> d] ELSE deepcopy(h, d)

\* JsonPatch.apply, up to the loop: the copy, and self._ops
BeginApply ==
    /\ pc = "ready"
    /\ run < MaxRuns
    /\ \E ip \in BOOLEAN :
        \E c \in {apply_copy(heap, doc, ip)} :
           /\ in_place' = ip
           /\ heap' = c.heap
           /\ obj' = c.item
    /\ pc' = "applying"
    /\ opIdx' = 1
    /\ run' = run + 1
    /\ doc0' = Val(heap, doc)
    /\ before' = Val(heap, doc)
    /\ UNCHANGED <<patch, doc, err, result, chain, docLit, patch0, first, prev, diffVars, dst0>>

\* one turn of the loop: obj = operation.apply(obj)
ApplyOp ==
    /\ pc = "applying"
    /\ opIdx <= Len(patch)
    /\ \E r \in {OperationApply(heap, obj, patch[opIdx])} :
          /\ heap' = r.heap
          /\ obj' = r.obj
          /\ err' = r.err
          /\ pc' = IF r.err = "" THEN "applying" ELSE "raised"
          /\ opIdx' = IF r.err = "" THEN opIdx + 1 ELSE opIdx
          /\ first' = IF r.err # "" /\ run = 1 THEN [ok |-> FALSE, ret |-> Val(<<>>, NoItem)] ELSE first
    /\ before' = Val(heap, obj)
    /\ UNCHANGED <<patch, doc, in_place, result, run, chain, docLit, doc0, patch0, prev, diffVars, dst0>>

\* return obj
Return ==
    /\ pc = "applying"
    /\ opIdx > Len(patch)
    /\ pc' = "returned"
    /\ result' = obj
    /\ first' = IF run = 1 THEN [ok |-> TRUE, ret |-> Val(heap, obj)] ELSE first
    /\ UNCHANGED <<heap, patch, doc, in_place, obj, opIdx, err, run, chain, docLit, doc0, patch0, before, prev, diffVars, dst0>>

\* the caller passes the same patch a document equal to the first one
AgainFresh ==
    /\ pc \in {"returned", "raised"}
    /\ run < MaxRuns
    /\ \E d \in {Build(heap, docLit)} :
          /\ heap' = d.heap
          /\ doc' = d.item
    /\ chain' = "fresh"
    /\ prev' = [ok |-> pc = "returned", ret |-> IF pc = "returned" THEN Val(heap, result) ELSE Val(<<>>, NoItem)]
    /\ pc' = "ready"
    /\ err' = ""
    /\ UNCHANGED <<patch, in_place, obj, opIdx, result, run, docLit, doc0, patch0, before, first, diffVars, dst0>>

\* the caller passes the same patch the document the last call returned
AgainResult ==
    /\ pc = "returned"
    /\ run < MaxRuns
    /\ doc' = result
    /\ chain' = "result"
    /\ prev' = [ok |-> TRUE, ret |-> Val(heap, result)]
    /\ pc' = "ready"
    /\ UNCHANGED <<heap, patch, in_place, obj, opIdx, err, result, run, docLit, doc0, patch0, before, first, diffVars, dst0>>

Next == Construct \/ BeginApply \/ ApplyOp \/ Return \/ AgainFresh \/ AgainResult

Spec == InitApply /\ [][Next]_vars

(***************************************************************************)
(* make_patch(src, dst) = JsonPatch.from_diff(src, dst), and the patch     *)
(* applied to src.  The loops of _compare_dicts run over Python sets: the  *)
(* order is any order.                                                     *)
(***************************************************************************)
InitDiff ==
    /\ \E inp \in DiffInputs :
        \E s \in {Build(<<>>, inp[1])} :
        \E d \in {Build(s.heap, inp[2])} :
           /\ heap = d.heap
           /\ src_doc = s.item
           /\ dst_doc = d.item
           /\ doc = s.item
           /\ docLit = inp[1]
           /\ doc0 = Val(d.heap, s.item)
           /\ dst0 = Val(d.heap, d.item)
    /\ patch = <<>>
    /\ patch0 = <<>>
    /\ in_place = FALSE
    /\ pc = "from_diff"
    /\ obj = NoItem
    /\ opIdx = 0
    /\ err = ""
    /\ result = NoItem
    /\ run = 0
    /\ chain = "first"
    /\ before = Val(<<>>, NoItem)
    /\ first = NoOutcome
    /\ prev = NoOutcome
    /\ stack = <<>>
    /\ nodes = DiffBuilder_init.nodes
    /\ index_storage = DiffBuilder_init.index_storage
    /\ index_storage2 = DiffBuilder_init.index_storage2

\* the builder the variables hold
Builder == [nodes |-> nodes, index_storage |-> index_storage, index_storage2 |-> index_storage2, err |-> ""]

\* the builder after a step, the frames after it; an exception ends from_diff
DiffTo(b, frames) ==
    /\ nodes' = b.nodes
    /\ index_storage' = b.index_storage
    /\ index_storage2' = b.index_storage2
    /\ err' = b.err
    /\ pc' = IF b.err = "" THEN "comparing" ELSE "diff_raised"
    /\ stack' = frames
    /\ UNCHANGED <<heap, patch, doc, in_place, obj, opIdx, result, run, chain, histVars, src_doc, dst_doc>>

\* from_diff: the builder is made, builder._compare_values('', None, src, dst)
DiffBegin ==
    /\ pc = "from_diff"
    /\ \E c \in {compare_values(heap, DiffBuilder_init, <<>>, NonePart, src_doc, dst_doc)} :
          DiffTo(c.b, c.calls)

\* one turn of a loop of the innermost _compare_dicts
CompareDicts ==
    /\ pc = "comparing"
    /\ stack # <<>>
    /\ Last(stack).fn = "dict"
    /\ \E key \in TurnKeys(Last(stack)) :
       \E r \in {compare_dicts_step(heap, dst_doc, Builder, Last(stack), key)} :
          DiffTo(r.b, Append(Front(stack), r.frame) \o r.calls)

\* one turn of the loop of the innermost _compare_lists
CompareLists ==
    /\ pc = "comparing"
    /\ stack # <<>>
    /\ Last(stack).fn = "list"
    /\ ~FrameDone(heap, Last(stack))
    /\ \E r \in {compare_lists_step(heap, dst_doc, Builder, Last(stack))} :
          DiffTo(r.b, Append(Front(stack), r.frame) \o r.calls)

\* the innermost call returns
CompareReturn ==
    /\ pc = "comparing"
    /\ stack # <<>>
    /\ FrameDone(heap, Last(stack))
    /\ DiffTo(Builder, Front(stack))

\* ops = list(builder.execute()); return cls(ops): the JsonPatch is constructed next
Execute ==
    /\ pc = "comparing"
    /\ stack = <<>>
    /\ \E ops \in {execute(nodes, nodes[root].next)} :
          /\ patch' = ops
          /\ patch0' = PatchVal(heap, ops)
    /\ pc' = "new"
    /\ UNCHANGED <<heap, doc, in_place, obj, opIdx, err, result, run, chain, docLit, doc0, before, first, prev, diffVars, dst0>>

NextDiff ==
    \/ DiffBegin \/ CompareDicts \/ CompareLists \/ CompareReturn \/ Execute
    \/ Construct \/ BeginApply \/ ApplyOp \/ Return

SpecDiff == InitDiff /\ [][NextDiff]_vars

(***************************************************************************)
(* Reading JSON values by pointer, to state what an operation should do.   *)
(***************************************************************************)
Missing == Val(<<>>, NoItem)

\* the value at parts in v, Missing when it does not resolve
RECURSIVE VGet(_, _)
VGet(v, parts) ==
    IF Len(parts) = 0 THEN v
    ELSE IF v.k = "list"
         THEN IF IsArrayIndex(parts[1]) /\ IntOfStr(parts[1]) < Len(v.a)
              THEN VGet(v.a[IntOfStr(parts[1]) + 1], Tail(parts))
              ELSE Missing
    ELSE IF v.k = "dict"
         THEN IF parts[1] \in DOMAIN v.o THEN VGet(v.o[parts[1]], Tail(parts)) ELSE Missing
    ELSE Missing

\* v with the value at parts (which resolves) replaced by w
RECURSIVE VSet(_, _, _)
VSet(v, parts, w) ==
    IF Len(parts) = 0 THEN w
    ELSE IF v.k = "list" THEN [v EXCEPT !.a[IntOfStr(parts[1]) + 1] = VSet(@, Tail(parts), w)]
    ELSE [v EXCEPT !.o[parts[1]] = VSet(@, Tail(parts), w)]

\* an operation of the current call has just been applied or has just failed
OpDone == (pc \in {"applying", "returned"} /\ opIdx > 1) \/ pc = "raised"

\* that operation
DoneOp == IF pc = "raised" THEN patch[opIdx] ELSE patch[opIdx - 1]

InCall == pc \in {"applying", "returned", "raised"}

(***************************************************************************)
(* C1: make_patch(A, B) returns a patch, whatever the order the object     *)
(* keys are visited in, and the patch applied to A by the copying apply    *)
(* returns a document equal to B.                                          *)
(***************************************************************************)
C1_RoundTrip ==
    /\ pc # "diff_raised"
    /\ (dst_doc # NoItem /\ ~in_place)
          => /\ pc \notin {"invalid", "raised"}
             /\ pc = "returned" => Val(heap, result) = dst0

(***************************************************************************)
(* C2: with in_place = false, apply leaves the caller's document equal to  *)
(* what it was when the call started, whether the call returns or fails.   *)
(***************************************************************************)
C2_CallerDocUnchanged == (InCall /\ ~in_place) => Val(heap, doc) = doc0

(***************************************************************************)
(* C3: when an operation fails in an in-place call, the caller's document  *)
(* is the result of the operations before it: the failing operation has    *)
(* changed nothing.                                                        *)
(***************************************************************************)
C3_FailedOpChangesNothing == (pc = "raised" /\ in_place) => Val(heap, doc) = before

(***************************************************************************)
(* C4: a patch with an operation that lacks 'op', has an unknown 'op',     *)
(* lacks 'path', lacks 'value' (add, replace, test) or lacks 'from' (move, *)
(* copy) fails at construction; apply never raises InvalidJsonPatch after  *)
(* an earlier operation was applied.                                       *)
(***************************************************************************)
LacksOpOrPath(op) == "op" \notin op.fields \/ op.op \notin operations \/ "path" \notin op.fields

LacksValueOrFrom(op) ==
    \/ op.op \in {"add", "replace", "test"} /\ "value" \notin op.fields
    \/ op.op \in {"move", "copy"} /\ "from" \notin op.fields

C4_AllValidatedAtConstruction ==
    /\ (pc # "new" /\ \E i \in 1..Len(patch) : LacksOpOrPath(patch[i]) \/ LacksValueOrFrom(patch[i]))
          => (pc = "invalid" /\ err = "InvalidJsonPatch")
    /\ (pc = "raised" /\ err = "InvalidJsonPatch") => opIdx = 1

(***************************************************************************)
(* C4, amended: construction fails, nothing touched, whenever an operation *)
(* lacks 'op', has an unknown 'op' or lacks 'path' (with InvalidJsonPatch  *)
(* when no path is malformed); a missing 'value' or 'from' does not fail   *)
(* construction: InvalidJsonPatch is raised when that operation is applied *)
(* (as for a replace whose path ends in '-').                              *)
(***************************************************************************)
EndsInDash(op) == Len(Parts(op.path)) > 0 /\ Last(Parts(op.path)) = Dash

C4_ConstructionChecksOpAndPath ==
    /\ (pc # "new" /\ \E i \in 1..Len(patch) : LacksOpOrPath(patch[i]))
          => /\ pc = "invalid" /\ run = 0
             /\ Val(heap, doc) = doc0 /\ PatchVal(heap, patch) = patch0
             /\ (\A i \in 1..Len(patch) : "path" \in patch[i].fields => PointerOk(patch[i].path))
                   => err = "InvalidJsonPatch"
    /\ (pc # "new" /\ \A i \in 1..Len(patch) : ~LacksOpOrPath(patch[i]) /\ PointerOk(patch[i].path))
          => pc # "invalid"
    /\ (pc = "raised" /\ err = "InvalidJsonPatch")
          => (LacksValueOrFrom(patch[opIdx]) \/ (patch[opIdx].op = "replace" /\ EndsInDash(patch[opIdx])))
    /\ (OpDone /\ LacksValueOrFrom(DoneOp))
          => /\ pc = "raised"
             /\ err = "InvalidJsonPatch" \/ (DoneOp.op = "test" /\ err = "JsonPatchTestFailed")

\* an operation without 'value' raised InvalidJsonPatch after the first was applied
C4_Witness == pc = "raised" /\ err = "InvalidJsonPatch" /\ opIdx = 2 /\ LacksValueOrFrom(patch[2])

(***************************************************************************)
(* C5: applying a patch does not change the patch: every operation, its    *)
(* 'value' included, stays equal to what it was at construction.           *)
(***************************************************************************)
C5_PatchUnchanged == PatchVal(heap, patch) = patch0

(***************************************************************************)
(* C6: a test whose path resolves to a value that differs from its 'value' *)
(* (the number 1 against true included) fails with JsonPatchTestFailed.    *)
(***************************************************************************)
C6_TestIsTypeSensitive ==
    (/\ OpDone
     /\ DoneOp.op = "test"
     /\ "value" \in DoneOp.fields
     /\ VGet(before, Parts(DoneOp.path)) # Missing
     /\ VGet(before, Parts(DoneOp.path)) # Val(heap, DoneOp.value))
        => (pc = "raised" /\ err = "JsonPatchTestFailed")

(***************************************************************************)
(* C7: a patch of test operations only, each value equal to the value at   *)
(* its path, raises nothing and returns a document equal to the input;     *)
(* the caller's document is unchanged in both modes.                       *)
(***************************************************************************)
AllTestsMatch ==
    /\ Len(patch) > 0
    /\ \A i \in 1..Len(patch) :
          /\ patch[i].op = "test"
          /\ patch[i].fields = {"op", "path", "value"}
          /\ VGet(doc0, Parts(patch[i].path)) = Val(heap, patch[i].value)

C7_MatchingTestsAreNoOp ==
    (InCall /\ AllTestsMatch) =>
        /\ pc # "raised"
        /\ Val(heap, doc) = doc0
        /\ Val(heap, obj) = doc0
        /\ pc = "returned" => Val(heap, result) = doc0

\* an in-place call with two matching tests has returned
C7_Witness == pc = "returned" /\ in_place /\ AllTestsMatch /\ Len(patch) = 2

(***************************************************************************)
(* C8: a patch of replace operations only, applied to the result of its    *)
(* own application, gives that result again: whenever the second call      *)
(* returns, it returns a document equal to what the first returned.        *)
(***************************************************************************)
AllReplace == Len(patch) > 0 /\ \A i \in 1..Len(patch) : patch[i].op = "replace"

C8_ReplaceIdempotent ==
    (chain = "result" /\ AllReplace /\ pc = "returned") => Val(heap, result) = prev.ret

(***************************************************************************)
(* C9: add into an array of length n with key "-" or an index i, 0 <= i <= *)
(* n, succeeds: the value is at i (at n for "-"), the elements before keep *)
(* their places, those from i on move up by one, and nothing else in the   *)
(* document changes.                                                       *)
(***************************************************************************)
\* the add just done targets an array of `before`: the array, and the index asked for
AddParent == VGet(before, Front(Parts(DoneOp.path)))

AddIntoArray ==
    /\ OpDone
    /\ DoneOp.op = "add"
    /\ "value" \in DoneOp.fields
    /\ Len(Parts(DoneOp.path)) > 0
    /\ AddParent.k = "list"

AddKey == Last(Parts(DoneOp.path))

C9_AddIntoArray ==
    (AddIntoArray /\ (AddKey = Dash \/ (IsArrayIndex(AddKey) /\ IntOfStr(AddKey) <= Len(AddParent.a))))
        => LET n == Len(AddParent.a)
               i == IF AddKey = Dash THEN n ELSE IntOfStr(AddKey)
               v == Val(heap, DoneOp.value)
               now == VGet(Val(heap, obj), Front(Parts(DoneOp.path)))
           IN /\ pc # "raised"
              /\ now.k = "list"
              /\ Len(now.a) = n + 1
              /\ now.a[i + 1] = v
              /\ \A j \in 1..i : now.a[j] = AddParent.a[j]
              /\ \A j \in (i + 1)..n : now.a[j + 1] = AddParent.a[j]
              /\ Val(heap, obj) = VSet(before, Front(Parts(DoneOp.path)), now)

(***************************************************************************)
(* C10: add into an array of length n with an index greater than n fails   *)
(* with JsonPatchConflict and leaves the array (and the document) as it    *)
(* was.                                                                    *)
(***************************************************************************)
C10_AddPastEndConflicts ==
    (AddIntoArray /\ IsArrayIndex(AddKey) /\ IntOfStr(AddKey) > Len(AddParent.a))
        => /\ pc = "raised"
           /\ err = "JsonPatchConflict"
           /\ Val(heap, obj) = before
           /\ VGet(Val(heap, obj), Front(Parts(DoneOp.path))) = AddParent

\* an add at index n + 1 has raised
C10_Witness ==
    /\ AddIntoArray /\ pc = "raised" /\ err = "JsonPatchConflict"
    /\ IsArrayIndex(AddKey) /\ IntOfStr(AddKey) = Len(AddParent.a) + 1

(***************************************************************************)
(* C11: add with the empty path succeeds on every document (object, array  *)
(* or scalar) and the document the operation returns is its value.         *)
(***************************************************************************)
AddAtRoot == OpDone /\ DoneOp.op = "add" /\ "value" \in DoneOp.fields /\ Parts(DoneOp.path) = <<>>

C11_AddRootReplaces ==
    AddAtRoot => (pc # "raised" /\ Val(heap, obj) = Val(heap, DoneOp.value))

(***************************************************************************)
(* C12: remove whose parent resolves to an array (final token an index) or *)
(* to an object: if the member exists the operation succeeds and the       *)
(* document is the one before without that member (later elements one      *)
(* place down), nothing else changed; if it does not exist the operation   *)
(* fails with JsonPatchConflict and the document is as before.             *)
(***************************************************************************)
RemoveParent == VGet(before, Front(Parts(DoneOp.path)))

RemoveKey == Last(Parts(DoneOp.path))

RemoveFromContainer ==
    /\ OpDone
    /\ DoneOp.op = "remove"
    /\ Len(Parts(DoneOp.path)) > 0
    /\ \/ RemoveParent.k = "dict"
       \/ RemoveParent.k = "list" /\ IsArrayIndex(RemoveKey)

\* the container value v without the member key
VDel(v, key) ==
    IF v.k = "list" THEN [v EXCEPT !.a = RemoveAt(@, IntOfStr(key) + 1)]
    ELSE [v EXCEPT !.o = [x \in (DOMAIN @) \ {key} |-> @[x]]]

C12_RemoveExactly ==
    RemoveFromContainer =>
        IF VGet(before, Parts(DoneOp.path)) # Missing
        THEN /\ pc # "raised"
             /\ Val(heap, obj) = VSet(before, Front(Parts(DoneOp.path)), VDel(RemoveParent, RemoveKey))
        ELSE /\ pc = "raised"
             /\ err = "JsonPatchConflict"
             /\ Val(heap, obj) = before

(***************************************************************************)
(* C13: replace at the root path returns its value; replace of an existing *)
(* member or element puts its value there; when the key is not in the      *)
(* object, the index is outside the array, the final token is "-" or the   *)
(* container is a scalar, it fails with JsonPatchConflict and the document *)
(* is as before.                                                           *)
(***************************************************************************)
ReplaceParent == VGet(before, Front(Parts(DoneOp.path)))

ReplaceKey == Last(Parts(DoneOp.path))

\* a replace has just been tried at the root, or with a parent that resolves
ReplaceTried ==
    /\ OpDone
    /\ DoneOp.op = "replace"
    /\ "value" \in DoneOp.fields
    /\ \/ Parts(DoneOp.path) = <<>>
       \/ ReplaceParent.k = "dict"
       \/ ReplaceParent.k = "list" /\ (ReplaceKey = Dash \/ IsArrayIndex(ReplaceKey))
       \/ ReplaceParent.k \in {"num", "bool", "null"}

\* the location it names exists
ReplaceTargetExists ==
    \/ Parts(DoneOp.path) = <<>>
    \/ ReplaceKey # Dash /\ VGet(before, Parts(DoneOp.path)) # Missing

ReplaceDone ==
    /\ pc # "raised"
    /\ VGet(Val(heap, obj), Parts(DoneOp.path)) = Val(heap, DoneOp.value)

C13_ReplaceOrConflict ==
    ReplaceTried =>
        IF ReplaceTargetExists THEN ReplaceDone
        ELSE pc = "raised" /\ err = "JsonPatchConflict" /\ Val(heap, obj) = before

(***************************************************************************)
(* C13, amended: as above, but the failure is JsonPatchConflict only for a *)
(* key that is not in the object or an index outside the array; it is      *)
(* InvalidJsonPatch when the final token is "-", and the pointer's own     *)
(* exception when the container is a number, a boolean or null.            *)
(***************************************************************************)
C13_ReplaceFailures ==
    ReplaceTried =>
        IF ReplaceTargetExists THEN ReplaceDone
        ELSE /\ pc = "raised"
             /\ Val(heap, obj) = before
             /\ err = IF ReplaceParent.k \notin {"list", "dict"} THEN "JsonPointerException"
                      ELSE IF ReplaceKey = Dash THEN "InvalidJsonPatch"
                      ELSE "JsonPatchConflict"

\* a replace at "-" of an array has raised InvalidJsonPatch
C13_Witness ==
    /\ ReplaceTried /\ pc = "raised" /\ err = "InvalidJsonPatch"
    /\ ReplaceParent.k = "list" /\ ReplaceKey = Dash

(***************************************************************************)
(* C14: a move whose 'from' is a proper prefix of its 'path', the value at *)
(* 'from' being a member of an object or an element of an array, fails     *)
(* with JsonPatchConflict and the document is as before.                   *)
(***************************************************************************)
MoveFromParent == VGet(before, Front(Parts(DoneOp.from)))

\* a move of an existing member or element into one of its own descendants has been tried
MoveIntoOwn ==
    /\ OpDone
    /\ DoneOp.op = "move"
    /\ "from" \in DoneOp.fields
    /\ PointerOk(DoneOp.from)
    /\ Len(Parts(DoneOp.from)) > 0
    /\ contains(Parts(DoneOp.path), Parts(DoneOp.from))
    /\ Parts(DoneOp.path) # Parts(DoneOp.from)
    /\ MoveFromParent.k \in {"list", "dict"}
    /\ VGet(before, Parts(DoneOp.from)) # Missing

C14_MoveIntoDescendant ==
    MoveIntoOwn => (pc = "raised" /\ err = "JsonPatchConflict" /\ Val(heap, obj) = before)

(***************************************************************************)
(* C14, amended: such a move fails with JsonPatchConflict, the document as *)
(* before, when the value at 'from' is a member of an object; when it is   *)
(* an element of an array the element is removed and the add is tried on   *)
(* what is left: whether the move then returns or fails, the document is   *)
(* no longer what it was.                                                  *)
(***************************************************************************)
C14_MoveIntoDescendantOfMember ==
    MoveIntoOwn =>
        IF MoveFromParent.k = "dict"
        THEN pc = "raised" /\ err = "JsonPatchConflict" /\ Val(heap, obj) = before
        ELSE Val(heap, obj) # before

\* an element of an array has been moved into what was the element after it
C14_Witness == MoveIntoOwn /\ MoveFromParent.k = "list" /\ pc # "raised"

(***************************************************************************)
(* C15: a move with from # path that succeeds leaves the document that     *)
(* remove at 'from' followed by add at 'path' of the value that was at     *)
(* 'from' leaves; a move whose 'from' names no member of its container     *)
(* fails with JsonPatchConflict; a move with from = path, 'from' existing, *)
(* leaves the document as it was (and, but for the root, succeeds).        *)
(***************************************************************************)
\* the operation the loop is about to apply is a move with a 'from' pointer
MoveNext ==
    /\ pc = "applying"
    /\ opIdx <= Len(patch)
    /\ patch[opIdx].op = "move"
    /\ "from" \in patch[opIdx].fields
    /\ PointerOk(patch[opIdx].from)

\* RemoveOperation at 'from' and then AddOperation at 'path', applied one after the other
RemoveThenAdd(h, o, op) ==
    Only({
       IF r.err # "" THEN r
       ELSE AddOperation_apply(r.heap, r.obj,
                RawOp({"op", "path", "value"}, "add", op.path, <<>>, WalkAll(h, o, Parts(op.from)).item))
       : r \in {RemoveOperation_apply(h, o, RawOp({"op", "path"}, "remove", op.from, <<>>, NoItem))}})

C15_Step ==
    (MoveNext /\ opIdx' = opIdx + 1 /\ Parts(patch[opIdx].from) # Parts(patch[opIdx].path))
        => \E r \in {RemoveThenAdd(heap, obj, patch[opIdx])} :
              /\ r.err = ""
              /\ Val(heap', obj') = Val(r.heap, r.obj)
              /\ PatchVal(heap', patch') = PatchVal(r.heap, patch)

MoveDone == OpDone /\ DoneOp.op = "move" /\ "from" \in DoneOp.fields /\ PointerOk(DoneOp.from)

C15_After ==
    /\ (/\ MoveDone
        /\ Len(Parts(DoneOp.from)) > 0
        /\ \/ MoveFromParent.k = "dict"
           \/ MoveFromParent.k = "list" /\ IsArrayIndex(Last(Parts(DoneOp.from)))
        /\ VGet(before, Parts(DoneOp.from)) = Missing)
          => (pc = "raised" /\ err = "JsonPatchConflict" /\ Val(heap, obj) = before)
    /\ (/\ MoveDone
        /\ Parts(DoneOp.from) = Parts(DoneOp.path)
        /\ VGet(before, Parts(DoneOp.from)) # Missing)
          => /\ Val(heap, obj) = before
             /\ Len(Parts(DoneOp.from)) > 0 => pc # "raised"

CopyDone == OpDone /\ DoneOp.op = "copy" /\ "from" \in DoneOp.fields /\ PointerOk(DoneOp.from)

CopyFromParent == VGet(before, Front(Parts(DoneOp.from)))

\* the parts of the place the value added at `path` is found at afterwards ("-": the last index)
PlaceAdded(path) ==
    IF Len(Parts(path)) > 0 /\ Last(Parts(path)) = Dash /\ IsList(heap, WalkAll(heap, obj, Front(Parts(path))).item)
    THEN Append(Front(Parts(path)), StrOfInt(Len(VGet(Val(heap, obj), Front(Parts(path))).a) - 1))
    ELSE Parts(path)

\* the cells reachable from the cells todo
RECURSIVE ReachFrom(_, _, _)
ReachFrom(h, todo, seen) ==
    IF todo = {} THEN seen
    ELSE LET n == CHOOSE x \in todo : TRUE
             kids == {h[n].items[j].n : j \in {i \in 1..Len(h[n].items) : IsRef(h[n].items[i])}}
         IN ReachFrom(h, (todo \cup kids) \ (seen \cup {n}), seen \cup {n})

Reach(h, it) == IF IsRef(it) THEN ReachFrom(h, {it.n}, {}) ELSE {}

\* the slots <<cell, position>> outside the cells R that hold a reference into R
RefsInto(h, R) ==
    {s \in UNION {{<<m, j>> : j \in 1..Len(h[m].items)} : m \in (DOMAIN h) \ R} :
        IsRef(h[s[1]].items[s[2]]) /\ h[s[1]].items[s[2]].n \in R}

\* the value added at path, if a list or dict, is held by one slot of the document only, and by nothing else
AddedIsFresh(path) ==
    LET R == Reach(heap, WalkAll(heap, obj, PlaceAdded(path)).item)
    IN R # {} =>
          /\ Cardinality(RefsInto(heap, R)) = IF Len(Parts(path)) = 0 THEN 0 ELSE 1
          /\ \A i \in 1..Len(patch) : ~(IsRef(patch[i].value) /\ patch[i].value.n \in R)
          /\ ~(IsRef(doc) /\ doc.n \in R)

CopyFromMissing ==
    /\ CopyDone
    /\ Len(Parts(DoneOp.from)) > 0
    /\ \/ CopyFromParent.k = "dict"
       \/ CopyFromParent.k = "list" /\ IsArrayIndex(Last(Parts(DoneOp.from)))
    /\ VGet(before, Parts(DoneOp.from)) = Missing

DiffReturned == dst_doc # NoItem /\ pc \in {"new", "invalid", "ready", "applying", "returned", "raised"}

\* w is v with one object key renamed to a key v's object lacks, the value kept:
\* the set of <<parts of the old place, parts of the new place>>
RECURSIVE Renames(_, _)
Renames(v, w) ==
    IF v.k = "dict" /\ w.k = "dict"
    THEN {<<<<q[1]>>, <<q[2]>>>> :
              q \in {p \in (DOMAIN v.o) \X ((DOMAIN w.o) \ (DOMAIN v.o)) :
                        /\ DOMAIN w.o = ((DOMAIN v.o) \ {p[1]}) \cup {p[2]}
                        /\ w.o[p[2]] = v.o[p[1]]
                        /\ \A key \in (DOMAIN v.o) \ {p[1]} : w.o[key] = v.o[key]}}
         \cup (IF DOMAIN v.o # DOMAIN w.o THEN {}
               ELSE UNION {{<<<<key>> \o r[1], <<key>> \o r[2]>> : r \in Renames(v.o[key], w.o[key])} :
                              key \in {x \in DOMAIN v.o : \A y \in (DOMAIN v.o) \ {x} : v.o[y] = w.o[y]}})
    ELSE IF v.k = "list" /\ w.k = "list" /\ Len(v.a) = Len(w.a)
    THEN UNION {{<<<<StrOfInt(i - 1)>> \o r[1], <<StrOfInt(i - 1)>> \o r[2]>> : r \in Renames(v.a[i], w.a[i])} :
                   i \in {x \in 1..Len(v.a) : \A y \in (1..Len(v.a)) \ {x} : v.a[y] = w.a[y]}}
    ELSE {}

(***************************************************************************)
(* C17: when dst is src with one object key renamed to a key absent from   *)
(* src, the value under it kept, make_patch returns one operation: a move  *)
(* from the old key's path to the new key's path.                          *)
(***************************************************************************)
C17_RenameIsOneMove ==
    (Renames(doc0, dst0) # {} /\ pc \notin {"from_diff", "comparing"})
        => /\ DiffReturned
           /\ Len(patch) = 1
           /\ patch[1].op = "move"
           /\ PointerOk(patch[1].from) /\ PointerOk(patch[1].path)
           /\ <<Parts(patch[1].from), Parts(patch[1].path)>> \in Renames(doc0, dst0)

\* one move was returned for a renamed key that holds an array
C17_Witness ==
    /\ DiffReturned /\ Len(patch) = 1 /\ patch[1].op = "move"
    /\ \E r \in Renames(doc0, dst0) : VGet(doc0, r[1]).k = "list"

(***************************************************************************)
(* C18: when src and dst are objects that differ only in the scalar under  *)
(* one common key, make_patch returns one operation, a replace at that     *)
(* key's path with dst's value; and no patch make_patch returns has a      *)
(* remove immediately followed by an add at the same path.                 *)
(***************************************************************************)
\* the common keys of the objects v and w, equal but for the scalars under that key
ScalarChanged(v, w) ==
    IF v.k = "dict" /\ w.k = "dict" /\ DOMAIN v.o = DOMAIN w.o
    THEN {key \in DOMAIN v.o :
             /\ v.o[key] # w.o[key]
             /\ v.o[key].k \notin {"list", "dict"} /\ w.o[key].k \notin {"list", "dict"}
             /\ \A y \in (DOMAIN v.o) \ {key} : v.o[y] = w.o[y]}
    ELSE {}

C18_ReplaceNotRemoveAdd ==
    /\ (ScalarChanged(doc0, dst0) # {} /\ pc \notin {"from_diff", "comparing"})
          => /\ DiffReturned
             /\ Len(patch) = 1
             /\ patch[1].op = "replace"
             /\ PointerOk(patch[1].path)
             /\ Parts(patch[1].path) \in {<<key>> : key \in ScalarChanged(doc0, dst0)}
             /\ Val(heap, patch[1].value) = dst0.o[Parts(patch[1].path)[1]]
    /\ DiffReturned
          => \A i \in 1..(Len(patch) - 1) :
                ~(patch[i].op = "remove" /\ patch[i + 1].op = "add" /\ patch[i].path = patch[i + 1].path)

\* a one-replace patch was returned for a changed scalar
C18_Witness ==
    /\ DiffReturned /\ ScalarChanged(doc0, dst0) # {} /\ Len(patch) = 1 /\ patch[1].op = "replace"

(***************************************************************************)
(* C19: when dst is src with the number 1 changed to true at one place (an *)
(* object member or an array element, at any depth), the patch make_patch  *)
(* returns is not empty, and applied to src it returns dst.                *)
(***************************************************************************)
\* w is v with one 1 turned into true
RECURSIVE OneToTrue(_, _)
OneToTrue(v, w) ==
    IF v.k = "num" THEN v.n = 1 /\ w.k = "bool" /\ w.n = 1
    ELSE IF v.k = "dict" /\ w.k = "dict" /\ DOMAIN v.o = DOMAIN w.o
    THEN \E key \in DOMAIN v.o :
            OneToTrue(v.o[key], w.o[key]) /\ \A y \in (DOMAIN v.o) \ {key} : v.o[y] = w.o[y]
    ELSE IF v.k = "list" /\ w.k = "list" /\ Len(v.a) = Len(w.a)
    THEN \E i \in 1..Len(v.a) :
            OneToTrue(v.a[i], w.a[i]) /\ \A y \in (1..Len(v.a)) \ {i} : v.a[y] = w.a[y]
    ELSE FALSE

C19_DiffIsTypeSensitive ==
    (OneToTrue(doc0, dst0) /\ doc0.k \in {"list", "dict"} /\ pc \notin {"from_diff", "comparing"})
        => /\ DiffReturned
           /\ Len(patch) > 0
           /\ pc # "raised"
           /\ pc = "returned" => Val(heap, result) = dst0

(***************************************************************************)
(* C20: make_patch raises nothing: every diff run ends with a patch.       *)
(***************************************************************************)
C20_DiffNeverFails == pc # "diff_raised"

(***************************************************************************)
(* C21: an operation whose pointer does not resolve (a missing             *)
(* intermediate key or index, or a token applied to a scalar) fails with   *)
(* JsonPointerException, a test included; JsonPatchTestFailed is raised    *)
(* only by a test whose path resolves to a value that differs from the     *)
(* expected one.                                                           *)
(***************************************************************************)
\* the parent of the last token is missing in v or is no array and no object
Unresolved(v, parts) == Len(parts) > 0 /\ VGet(v, Front(parts)).k \notin {"list", "dict"}

\* the completed operation has its members and the pointer it resolves
\* first ('from' for move and copy) does not resolve
OpUnresolved ==
    /\ OpDone
    /\ ~LacksOpOrPath(DoneOp) /\ ~LacksValueOrFrom(DoneOp)
    /\ Unresolved(before, Parts(IF DoneOp.op \in {"move", "copy"} THEN DoneOp.from ELSE DoneOp.path))

C21_ErrorKindsApart ==
    /\ OpUnresolved => (pc = "raised" /\ err = "JsonPointerException")
    /\ (pc = "raised" /\ err = "JsonPatchTestFailed")
          => /\ DoneOp.op = "test" /\ "value" \in DoneOp.fields
             /\ VGet(before, Parts(DoneOp.path)) # Missing
             /\ VGet(before, Parts(DoneOp.path)) # Val(heap, DoneOp.value)

(***************************************************************************)
(* C21, amended: an operation other than test whose pointer does not       *)
(* resolve fails with JsonPointerException; a test whose path does not     *)
(* resolve fails with JsonPatchTestFailed, as a test does whose path       *)
(* resolves to a value that differs from the expected one; no other        *)
(* operation raises JsonPatchTestFailed.                                   *)
(***************************************************************************)
C21_TestFailsWhenUnresolved ==
    /\ OpUnresolved
          => /\ pc = "raised"
             /\ err = IF DoneOp.op = "test" THEN "JsonPatchTestFailed" ELSE "JsonPointerException"
    /\ (pc = "raised" /\ err = "JsonPatchTestFailed")
          => /\ DoneOp.op = "test"
             /\ \/ VGet(before, Parts(DoneOp.path)) = Missing
                \/ /\ "value" \in DoneOp.fields
                   /\ VGet(before, Parts(DoneOp.path)) # Val(heap, DoneOp.value)

\* a test whose path runs through a missing member has failed
C21_Witness ==
    /\ OpUnresolved /\ DoneOp.op = "test" /\ pc = "raised"
    /\ VGet(before, Front(Parts(DoneOp.path))) = Missing

(***************************************************************************)
(* C22: make_patch leaves src and dst as they were, and so does applying   *)
(* the patch it returned to src without in_place: dst is not changed       *)
(* through the values the patch carries.                                   *)
(***************************************************************************)
C22_DiffInputsUnchanged ==
    dst_doc # NoItem
        => /\ (run = 0 \/ ~in_place) => Val(heap, src_doc) = doc0
           /\ (run = 0 \/ ~in_place) => Val(heap, dst_doc) = dst0

(***************************************************************************)
(* C23: the renumbering of array indices leaves object members alone: when *)
(* src and dst are objects, every path (and 'from') of the returned patch  *)
(* starts with a key that src or dst has.                                  *)
(***************************************************************************)
\* the pointers an operation of the returned patch names
OpPointers(op) == {op.path} \cup (IF op.op \in {"move", "copy"} THEN {op.from} ELSE {})

C23_ObjectKeysKept ==
    (DiffReturned /\ doc0.k = "dict" /\ dst0.k = "dict")
        => \A i \in 1..Len(patch) : \A p \in OpPointers(patch[i]) :
              Len(Parts(p)) > 0 => Parts(p)[1] \in (DOMAIN doc0.o) \cup (DOMAIN dst0.o)

(***************************************************************************)
(* C24: execute walks the pending list once from the sentinel: a remove    *)
(* directly followed by an add at the same location is yielded as one      *)
(* replace with the add's value, every other pending operation is yielded  *)
(* once and as it is, in the order of the list.                            *)
(***************************************************************************)
\* the operations of the cells linked after the sentinel, from cell curr on
RECURSIVE PendingFrom(_, _)
PendingFrom(ns, curr) == IF curr = root THEN <<>> ELSE <<ns[curr].op>> \o PendingFrom(ns, ns[curr].next)

Pending == PendingFrom(nodes, nodes[root].next)

\* the positions of the removes that are directly followed by an add at their location
MergedAt(L) ==
    {i \in 1..(Len(L) - 1) : L[i].op = "remove" /\ L[i + 1].op = "add" /\ L[i].path = L[i + 1].path}

\* what the claim says is yielded for the pending operations L
MergeOf(L) ==
    LET kept == SelectSeq([i \in 1..Len(L) |-> i], LAMBDA i : (i - 1) \notin MergedAt(L))
    IN [j \in 1..Len(kept) |->
           IF kept[j] \in MergedAt(L)
           THEN RawOp({"op", "path", "value"}, "replace", L[kept[j] + 1].path, <<>>, L[kept[j] + 1].value)
           ELSE operation(L[kept[j]])]

C24_ExecuteMergesOnce == DiffReturned => patch = MergeOf(Pending)

\* a replace was merged out of two pending operations, and another pending
\* operation was yielded as it was
C24_Witness == DiffReturned /\ MergedAt(Pending) # {} /\ Len(patch) > Cardinality(MergedAt(Pending))

(***************************************************************************)
(* C25: _compare_lists visits the indices in ascending order; a surplus    *)
(* element of src is recorded as removed at index len(dst), a surplus      *)
(* element of dst as added at its own index; and the patch made for two    *)
(* arrays, applied to src, leaves an array as long as dst.                 *)
(***************************************************************************)
\* a turn of the loop of _compare_lists is next
ListTurn == pc = "comparing" /\ stack # <<>> /\ Last(stack).fn = "list" /\ ~FrameDone(heap, Last(stack))

\* the location of index i of the array the innermost call compares
ListLoc(i) == path_join(Last(stack).path, StrOfInt(i))

SrcLen == Len(heap[Last(stack).src.n].items)

DstLen == Len(heap[Last(stack).dst.n].items)

\* the element of src (of dst) the turn is at
OldItem == heap[Last(stack).src.n].items[Last(stack).key + 1]

NewItem == heap[Last(stack).dst.n].items[Last(stack).key + 1]

\* the index goes up by one; a surplus element of src that pairs with no
\* pending add leaves a new cell with a remove at index len(dst); a surplus
\* element of dst that pairs with no pending remove leaves a new cell with
\* an add of it at its own index
C25_Turn ==
    ListTurn =>
        /\ stack'[Len(stack)].key = Last(stack).key + 1
        /\ (Last(stack).key >= DstLen /\ take_index(Builder, Val(heap, OldItem), ST_ADD).index = 0)
              => /\ Len(nodes') = Len(nodes) + 1
                 /\ Last(nodes').op.op = "remove" /\ Last(nodes').op.path = ListLoc(DstLen)
        /\ (Last(stack).key >= SrcLen /\ take_index(Builder, Val(heap, NewItem), ST_REMOVE).index = 0)
              => /\ Len(nodes') = Len(nodes) + 1
                 /\ Last(nodes').op.op = "add" /\ Last(nodes').op.path = ListLoc(Last(stack).key)
                 /\ Last(nodes').op.value = NewItem

\* the patch for two arrays applies to src and gives an array of dst's length
C25_Length ==
    (dst_doc # NoItem /\ doc0.k = "list" /\ dst0.k = "list")
        => /\ pc # "raised"
           /\ pc = "returned" => Len(Val(heap, result).a) = Len(dst0.a)

C25_ListDiffIndices == []C25_Length /\ [][C25_Turn]_vars

(***************************************************************************)
(* make_patch on objects whose keys are made of the characters a pointer   *)
(* escapes: every string of '/', '~', '0' and '1' up to MaxKey characters, *)
(* alone and next to the key that is its own escaped or unescaped form.    *)
(***************************************************************************)
KeyStrings == UNION {[1..n -> {"/", "~", "0", "1"}] : n \in 0..MaxKey}

\* the (src, dst) pairs for the key k
KeyPairs(k) ==
    {<<EmptyDoc, LDict(<<k>>, <<LNum(1)>>)>>,
     <<LDict(<<k>>, <<LNum(1)>>), EmptyDoc>>,
     <<LDict(<<k>>, <<ArrOf(1)>>), LDict(<<k>>, <<LList(<<LNum(2)>>)>>)>>,
     <<LDict(<<k>>, <<ArrOf(1)>>), LDict(<<kc>>, <<ArrOf(1)>>)>>,
     <<LDict(<<kc>>, <<LNum(1)>>), LDict(<<k>>, <<LNum(1)>>)>>}
        \cup {<<LDict(<<k, c>>, <<LNum(1), LNum(2)>>), LDict(<<k, c>>, <<LBool(TRUE), LNum(2)>>)>>
                : c \in {Escape(k), Unescape(k)} \ {k}}
        \cup {<<LDict(<<c>>, <<LNum(2)>>), LDict(<<k, c>>, <<LNum(1), LNum(2)>>)>>
                : c \in {Escape(k), Unescape(k)} \ {k}}

KeyInputs == UNION {KeyPairs(k) : k \in KeyStrings}

InitKeys ==
    /\ \E inp \in KeyInputs :
        \E s \in {Build(<<>>, inp[1])} :
        \E d \in {Build(s.heap, inp[2])} :
           /\ heap = d.heap
           /\ src_doc = s.item
           /\ dst_doc = d.item
           /\ doc = s.item
           /\ docLit = inp[1]
           /\ doc0 = Val(d.heap, s.item)
           /\ dst0 = Val(d.heap, d.item)
    /\ patch = <<>>
    /\ patch0 = <<>>
    /\ in_place = FALSE
    /\ pc = "from_diff"
    /\ obj = NoItem
    /\ opIdx = 0
    /\ err = ""
    /\ result = NoItem
    /\ run = 0
    /\ chain = "first"
    /\ before = Val(<<>>, NoItem)
    /\ first = NoOutcome
    /\ prev = NoOutcome
    /\ stack = <<>>
    /\ nodes = DiffBuilder_init.nodes
    /\ index_storage = DiffBuilder_init.index_storage
    /\ index_storage2 = DiffBuilder_init.index_storage2

SpecKeys == InitKeys /\ [][NextDiff]_vars

(***************************************************************************)
(* C26: the token _path_join appends for a key decodes to exactly that      *)
(* key, whatever '/' and '~' the key holds; so the patch make_patch         *)
(* returns for objects with such keys names members of src or dst only,     *)
(* applies to src and gives dst.                                            *)
(***************************************************************************)
DocKeys == (DOMAIN doc0.o) \cup (DOMAIN dst0.o)

C26_EscapeRoundTrips ==
    /\ \A k \in DocKeys : Parts(path_join(<<>>, k)) = <<k>>
    /\ DiffReturned
          => \A i \in 1..Len(patch) : \A p \in OpPointers(patch[i]) :
                PointerOk(p) /\ Len(Parts(p)) > 0 /\ Parts(p)[1] \in DocKeys
    /\ pc \notin {"diff_raised", "invalid", "raised"}
    /\ pc = "returned" => Val(heap, result) = dst0

\* the member "/" was changed next to the member "~1", and the patch gave dst
C26_Witness ==
    /\ pc = "returned" /\ Len(patch) > 0
    /\ {<<"/">>, <<"~", "1">>} \subseteq (DOMAIN doc0.o) \cap (DOMAIN dst0.o)
    /\ doc0.o[<<"/">>] # dst0.o[<<"/">>]

(***************************************************************************)
(* C27: make_patch of two equal documents (of a document and itself)       *)
(* returns the empty patch.                                                *)
(***************************************************************************)
C27_EqualGivesEmpty ==
    (dst_doc # NoItem /\ doc0 = dst0) => (pc # "diff_raised" /\ (DiffReturned => patch = <<>>))

\* the diff of an object with itself has returned: it holds an array and an object with a number
C27_Witness ==
    /\ DiffReturned /\ doc0 = dst0 /\ doc0.k = "dict"
    /\ {doc0.o[k].k : k \in DOMAIN doc0.o} = {"list", "dict"}
    /\ \E k \in DOMAIN doc0.o : doc0.o[k].k = "dict" /\ \E j \in DOMAIN doc0.o[k].o : doc0.o[k].o[j].k = "num"

(***************************************************************************)
(* C28: for the document and the patch a caller holds, apply with          *)
(* in_place = true and apply with in_place = false agree: both return, and *)
(* the documents are equal, or both fail at the same operation with the    *)
(* same exception.                                                         *)
(***************************************************************************)
\* the loop of apply from operation i on, obj = o: how the call ends
RECURSIVE RunOps(_, _, _, _)
RunOps(h, o, pt, i) ==
    IF i > Len(pt) THEN [ok |-> TRUE, ret |-> Val(h, o), err |-> "", at |-> 0]
    ELSE Only({IF r.err # "" THEN [ok |-> FALSE, ret |-> Missing, err |-> r.err, at |-> i]
               ELSE RunOps(r.heap, r.obj, pt, i + 1)
               : r \in {OperationApply(h, o, pt[i])}})

\* how apply(doc, in_place = ip) would end if it were called now
CallOutcome(ip) == Only({RunOps(c.heap, c.item, patch, 1) : c \in {apply_copy(heap, doc, ip)}})

C28_ModesAgree == pc = "ready" => CallOutcome(TRUE) = CallOutcome(FALSE)

(***************************************************************************)
(* The pending list driven call by call: a DiffBuilder just made, and any  *)
(* sequence of insert calls and of remove calls on cells insert returned   *)
(* and remove has not been given before.                                   *)
(***************************************************************************)
InitList == InitDiff /\ docLit = EmptyDoc /\ dst0 = doc0

\* builder.insert(op)
ListInsert ==
    /\ pc = "from_diff"
    /\ Len(nodes) <= MaxCells
    /\ \E op \in {DiffOp("remove", Ptr(<<ka>>), <<>>, NoItem),
                  DiffOp("add", Ptr(<<ka>>), <<>>, [k |-> "num", n |-> 1]),
                  DiffOp("move", Ptr(<<kb>>), Ptr(<<ka>>), NoItem)} :
          nodes' = insert(Builder, op).nodes
    /\ UNCHANGED <<applyVars, histVars, src_doc, dst_doc, stack, index_storage, index_storage2>>

\* builder.remove(index)
ListRemove ==
    /\ pc = "from_diff"
    /\ \E index \in {i \in 2..Len(nodes) : nodes[i].next # 0} :
          nodes' = remove(Builder, index).nodes
    /\ UNCHANGED <<applyVars, histVars, src_doc, dst_doc, stack, index_storage, index_storage2>>

SpecList == InitList /\ [][ListInsert \/ ListRemove]_vars

(***************************************************************************)
(* C29: the pending list stays a circular doubly linked list: for every    *)
(* linked cell n, next(prev(n)) = n and prev(next(n)) = n; following next  *)
(* from the sentinel comes back to it, visiting the linked cells in the    *)
(* order they were inserted; a remove changes the links of the removed     *)
(* cell's two neighbours only.                                             *)
(***************************************************************************)
\* the sentinel and the cells remove has not emptied
LinkedCells == {root} \cup {i \in 2..Len(nodes) : nodes[i].next # 0}

\* the cells met following next from cell curr until the sentinel, at most fuel of them
RECURSIVE WalkFrom(_, _)
WalkFrom(curr, fuel) ==
    IF curr = root \/ fuel = 0 \/ curr \notin 1..Len(nodes) THEN <<>>
    ELSE <<curr>> \o WalkFrom(nodes[curr].next, fuel - 1)

C29_Linked ==
    /\ \A n \in LinkedCells :
          /\ nodes[n].prev \in LinkedCells /\ nodes[n].next \in LinkedCells
          /\ nodes[nodes[n].prev].next = n
          /\ nodes[nodes[n].next].prev = n
    /\ \E w \in {WalkFrom(nodes[root].next, Len(nodes))} :
          /\ Range(w) = LinkedCells \ {root}
          /\ \A j \in 1..(Len(w) - 1) : w[j] < w[j + 1]

\* a step that empties the cell r leaves every other cell as it was, but for
\* the next link of the cell before r and the prev link of the cell after r
C29_RemoveStep ==
    \A r \in LinkedCells \ {root} :
        (Len(nodes') = Len(nodes) /\ nodes'[r].next = 0)
            => \A i \in (1..Len(nodes)) \ {r} :
                  /\ nodes'[i].op = nodes[i].op
                  /\ nodes'[i].next = IF i = nodes[r].prev THEN nodes[r].next ELSE nodes[i].next
                  /\ nodes'[i].prev = IF i = nodes[r].next THEN nodes[r].prev ELSE nodes[i].prev

C29_ListWellFormed == []C29_Linked /\ [][C29_RemoveStep]_vars

\* a cell between two linked cells was removed after a later cell had been inserted
C29_Witness ==
    \E r \in 2..Len(nodes) :
        /\ nodes[r].next = 0
        /\ \E i \in 2..(r - 1) : \E j \in (r + 1)..Len(nodes) : nodes[i].next = j /\ nodes[j].prev = i

(***************************************************************************)
(* C30: the two value indexes hold no stale reference: a cell referenced   *)
(* from the index of adds is linked and holds an add whose value is the    *)
(* key it is stored under, a cell referenced from the index of removes is  *)
(* linked and holds a remove, and no cell is referenced twice; so a cell   *)
(* that take_index returned (and that is unlinked or rewritten next) is    *)
(* referenced by no index.                                                 *)
(***************************************************************************)
\* the references index st holds: the cell, the key it is under, the slot it is in
IndexRefs(st) ==
    UNION {{[cell |-> index_storage[st][i].idxs[j], key |-> index_storage[st][i].key, slot |-> <<st, 1, i, j>>]
               : j \in 1..Len(index_storage[st][i].idxs)} : i \in 1..Len(index_storage[st])}
        \cup {[cell |-> index_storage2[st][i].index, key |-> index_storage2[st][i].key, slot |-> <<st, 2, i, 0>>]
                : i \in 1..Len(index_storage2[st])}

\* from_diff has not returned yet: the builder is in use
DiffRunning == pc \in {"from_diff", "comparing", "diff_raised"}

C30_IndexesFresh ==
    DiffRunning =>
        /\ \A r \in IndexRefs(ST_ADD) :
              /\ r.cell \in 2..Len(nodes) /\ nodes[r.cell].next # 0
              /\ nodes[r.cell].op.op = "add"
              /\ Val(heap, nodes[r.cell].op.value) = r.key
        /\ \A r \in IndexRefs(ST_REMOVE) :
              /\ r.cell \in 2..Len(nodes) /\ nodes[r.cell].next # 0
              /\ nodes[r.cell].op.op = "remove"
        /\ \A r1, r2 \in IndexRefs(ST_ADD) \cup IndexRefs(ST_REMOVE) : r1.cell = r2.cell => r1 = r2

\* take_index has returned the cell of a remove (its slot is empty, the cell
\* is unlinked) while another remove and an add are still referenced
C30_Witness ==
    /\ DiffRunning
    /\ \E i \in 1..Len(index_storage[ST_REMOVE]) : index_storage[ST_REMOVE][i].idxs = <<>>
    /\ \E c \in 2..Len(nodes) : nodes[c].next = 0
    /\ IndexRefs(ST_ADD) # {} /\ IndexRefs(ST_REMOVE) # {}

=============================================================================
